---- MODULE Spec2Model ----
(***************************************************************************)
(* Kanban board: ordered-collection engine (dragUtils, DragDropService),   *)
(* board page card handlers, debounced card store, StorageService, the     *)
(* LocalStorage and IndexedDB adapters, and the drag state of              *)
(* DragDropService with its subscribers.                                   *)
(*                                                                         *)
(* JavaScript objects are records; the spread {...a, ...b} is Merge(a, b). *)
(* JavaScript arrays are sequences; array index k is sequence index k + 1. *)
(***************************************************************************)
EXTENDS Integers, Sequences, FiniteSets, TLC

(***************************************************************************)
(* Bounds of the model.                                                    *)
(***************************************************************************)
NumCards == 3
NumDestCards == 2
MaxPos == 1
MaxBoardCards == 3
MaxBoardInFlight == 2
MaxBoardCalls == 5
MaxStorageFaults == 1
MaxStoreCalls == 4
MaxStoreCards == 2
NumTasks == 2
MaxStorageCalls == 3
MaxAdapterCalls == 2
MaxAdapterFaults == 1
MaxDragCalls == 4
MaxListeners == 2
NumHBoards == 2
NumHColumns == 2
NumHCards == 2
MaxHFaults == 1
MaxHInFlight == 2
MaxHCalls == 2
MaxHLoads == 1
NumSearchCards == 3
MaxSearchDrops == 1
MaxSearchLoads == 2
NumLoadTasks == 2
NumLoadRecs == 2
MaxLoadPos == 1
MaxLoadFaults == 1
NumUpdRecs == 2
MaxUpdCalls == 2
MaxUpdFaults == 1
NumExpColumns == 1
NumExpCards == 1
NumSvcTasks == 2
NumSvcRecs == 1
MaxSvcFaults == 1
NumMoveCards == 3
MaxMoveCalls == 2
MaxMoveFaults == 1
NumPageCards == 3
NumPageTasks == 2
MaxWrites == 3
MaxWriteFaults == 1
MaxPageFaults == 1

VARIABLES
    eng_items,      \* engine input: source / only sequence
    eng_dest,       \* engine input: destination sequence (moveItem)
    eng_si,         \* engine input: sourceIndex
    eng_di,         \* engine input: destinationIndex
    eng_op,         \* which engine function has been applied ("none" before)
    eng_out,        \* result: reordered sequence, or moveItem's source
    eng_out2        \* result: moveItem's destination

engVars == <<eng_items, eng_dest, eng_si, eng_di, eng_op, eng_out, eng_out2>>

VARIABLES
    b_cards,        \* BoardPage: state.cards of the reducer store
    b_db,           \* BoardPage: the IndexedDB 'cards' table, id -> record
    b_nextId,       \* BoardPage: next id generateId hands out
    b_faults,       \* BoardPage: IndexedDB operations that failed
    b_last,         \* BoardPage: the handler that completed last, its input
    b_inflight,     \* BoardPage: the handlers awaiting storage, oldest first
    b_overlap,      \* BoardPage: a handler was called while another awaited
    b_calls         \* BoardPage: handler calls so far

boardVars == <<b_cards, b_db, b_nextId, b_faults, b_last, b_inflight,
               b_overlap, b_calls>>

VARIABLES
    cs_cards,       \* card store: the in-memory cards
    cs_error,       \* card store: the error slot ("null" when empty)
    cs_timeoutId,   \* debounce closure: timeoutId (0 for null)
    cs_timers,      \* timers set with setTimeout and not yet fired or cleared
    cs_nextTimer,   \* the id the next setTimeout returns
    cs_inflight,    \* storage requests issued and not yet completed, in order
    cs_db,          \* the durable 'cards' table, id -> record
    cs_saves,       \* every storageService.save('cards', data) issued so far
    cs_calls,       \* number of store operations called so far
    cs_nextId,      \* id of the next card a caller creates
    cs_faults,      \* storage requests that failed so far
    cs_burst,       \* persists scheduled since the last timer fired
    cs_lastFired,   \* the burst the last fired timer closed, and what it saved
    cs_lastCall,    \* the store operation called last
    cs_onlyAddUpdate, \* no operation other than addCard/updateCard so far
    cs_watch        \* deletes completed while a save of the same id was pending

storeVars == <<cs_cards, cs_error, cs_timeoutId, cs_timers, cs_nextTimer,
               cs_inflight, cs_db, cs_saves, cs_calls, cs_nextId, cs_faults,
               cs_burst, cs_lastFired, cs_lastCall, cs_onlyAddUpdate, cs_watch>>

VARIABLES
    st_blob,        \* localStorage: the value under the 'cards' key, or NoItem
    st_adInit,      \* LocalStorageAdapter.initialized
    st_svcInit,     \* StorageService.initialized
    st_initCalls,   \* how often the service has invoked adapter.init()
    st_task,        \* the calls in progress: position, arguments, locals
    st_mq,          \* microtask queue: tasks whose await is ready to resume
    st_calls,       \* the calls started so far, in order
    st_overlap,     \* a call has started while another had not completed
    st_faults       \* localStorage writes that threw so far

stgVars == <<st_blob, st_adInit, st_svcInit, st_initCalls, st_task, st_mq,
             st_calls, st_overlap, st_faults>>

VARIABLES
    ad_kind,        \* adapter contract: which adapter class is in use
    ad_blob,        \* localStorage: the value under the collection's key
    ad_tbl,         \* IndexedDB: the collection's object store, id -> record
    ad_init0,       \* the records the collection held at the start
    ad_task,        \* the adapter calls in progress: position, call, locals
    ad_mq,          \* microtask queue: tasks whose await is ready to resume
    ad_calls,       \* the calls started so far, in order
    ad_log,         \* the calls completed so far, in order, with results
    ad_overlap,     \* a call has started while another had not completed
    ad_faults       \* browser store operations that failed so far

adVars == <<ad_kind, ad_blob, ad_tbl, ad_init0, ad_task, ad_mq, ad_calls,
            ad_log, ad_overlap, ad_faults>>

VARIABLES
    dd_dragState,   \* DragDropService.dragState
    dd_listeners,   \* DragDropService.listeners, in subscription order
    dd_handles,     \* listeners whose unsubscribe function has been handed out
    dd_notified,    \* the listener calls made by the method called last
    dd_last,        \* the method called last: arguments, result, state before
    dd_ncalls       \* number of methods called so far

ddVars == <<dd_dragState, dd_listeners, dd_handles, dd_notified, dd_last,
            dd_ncalls>>

VARIABLES
    h_boards,       \* the board store's boards, records [id]
    h_columns,      \* in-memory columns, records [id, boardId]
    h_cards,        \* in-memory cards, records [id, columnId]
    h_dbBoards,     \* IndexedDB 'boards' table
    h_dbColumns,    \* IndexedDB 'columns' table
    h_dbCards,      \* IndexedDB 'cards' table
    h_variant,      \* which board page runs: "reducer" or "zustand"
    h_timer,        \* per table, the store's pending debounce timer: its record
    h_faults,       \* IndexedDB requests that failed so far
    h_last,         \* the delete handler that completed last, its argument
    h_page,         \* the board of the URL the board page is mounted on
    h_activeBoard,  \* the board store's activeBoard
    h_appBoards,    \* the reducer store's boards (ids), loaded at start
    h_used,         \* the ids generated so far
    h_inflight,     \* handlers at an await: their remaining steps
    h_queue,        \* IndexedDB requests issued and not settled, oldest first
    h_calls,        \* number of handlers called so far
    h_init,         \* per table, its store's StorageService: this.initialized
    h_opens,        \* adapter.init() calls whose open has not settled, oldest
                    \* first: the request that waits for it, those held on it
    h_loading,      \* state.loading / the column store's loading: the spinner
    h_effect,       \* the board page's load effect is due
    h_loads         \* runs of the load effect so far

hierVars == <<h_boards, h_columns, h_cards, h_dbBoards, h_dbColumns,
              h_dbCards, h_variant, h_timer, h_faults, h_last, h_page,
              h_activeBoard, h_appBoards, h_used, h_inflight, h_queue,
              h_calls, h_init, h_opens, h_loading, h_effect, h_loads>>

VARIABLES
    sf_cards,       \* board page with search: the card store's cards
    sf_db,          \* the IndexedDB 'cards' table, id -> record
    sf_columns,     \* the column store's columns, by id
    sf_query,       \* useUIStore's searchQuery has length >= 2
    sf_active,      \* the debounced query has length >= 2
    sf_loading,     \* the column store's loading flag: the page shows a spinner
    sf_effect,      \* the page's load effect is due
    sf_loads,       \* runs of the load effect so far
    sf_timer,       \* the card store's pending debounced save: its record
    sf_queue,       \* IndexedDB requests made and not settled, oldest first
    sf_faults,      \* IndexedDB requests that failed
    sf_drops,       \* drops handled so far
    sf_last,        \* what changed the cards last: for a drop, what was shown
    sf_inflight     \* handleDragEnd calls at their await, oldest first

searchVars == <<sf_cards, sf_db, sf_columns, sf_query, sf_active, sf_loading,
                sf_effect, sf_loads, sf_timer, sf_queue, sf_faults, sf_drops,
                sf_last, sf_inflight>>

VARIABLES
    ld_kind,        \* entity store: "boards", "columns" or "cards"
    ld_db,          \* the store's IndexedDB table
    ld_items,       \* the store's in-memory collection
    ld_initialized, \* the store's initialized flag
    ld_loading,     \* the store's loading flag
    ld_task,        \* the init / load calls: where each one is
    ld_fullLoads,   \* getAll requests issued by init() so far
    ld_faults,      \* IndexedDB requests that failed so far
    ld_last,        \* the call that completed last
    ld_timer,       \* the record of the store's pending debounced save, if any
    ld_added,       \* the records added so far, and whether an init() was
                    \* awaiting storage when they were added
    ld_saves        \* debounced saves made and not settled, oldest first

loadVars == <<ld_kind, ld_db, ld_items, ld_initialized, ld_loading, ld_task,
              ld_fullLoads, ld_faults, ld_last, ld_timer, ld_added,
              ld_saves>>

VARIABLES
    up_cards,       \* store updates: the in-memory collection
    up_orig,        \* the id each in-memory record was created with, by index
    up_db,          \* the store's IndexedDB table, id -> record
    up_timer,       \* the pending debounce timer: its record, whose it is
    up_written,     \* the records the timer has saved, whose they are
    up_calls,       \* update calls made so far
    up_initialized, \* the store's StorageService: this.initialized
    up_dbs,         \* the Dexie instances adapter.init() has made, oldest first
    up_opens,       \* saves waiting for their adapter.init(), oldest first
    up_queue,       \* puts made and not settled, oldest first
    up_faults       \* IndexedDB requests that failed

updVars == <<up_cards, up_orig, up_db, up_timer, up_written, up_calls,
             up_initialized, up_dbs, up_opens, up_queue, up_faults>>

VARIABLES
    xp_board,       \* export input: the board
    xp_columns,     \* export input: its columns
    xp_cards,       \* export input: their cards
    xp_op,          \* which function has been applied ("none" before)
    xp_out          \* its result

expVars == <<xp_board, xp_columns, xp_cards, xp_op, xp_out>>

VARIABLES
    sv_kind,        \* which adapter the service was built with
    sv_dbs,         \* state of each Dexie instance IndexedDBAdapter.init made
    sv_initialized, \* StorageService.initialized
    sv_tbl,         \* ids of the records the adapter holds in one store
    sv_task,        \* per call of a service method: position and arguments
    sv_initsIssued, \* adapter.init() calls the service has made
    sv_initsDone,   \* how many of them have settled
    sv_faults,      \* storage operations that have failed so far
    sv_lastOp,      \* the last adapter data operation a service method invoked
    sv_lastRes      \* the last value a service method returned

VARIABLES
    mv_cards,       \* card store: the in-memory cards
    mv_db,          \* the durable 'cards' table, records by id
    mv_timer,       \* the pending debounced save, if any
    mv_calls,       \* moveCard calls made so far
    mv_last,        \* the last moveCard call and the cards before it
    mv_initialized, \* the card store's StorageService: this.initialized
    mv_dbs,         \* the Dexie instances adapter.init() has made, oldest first
    mv_opens,       \* saves waiting for their adapter.init(), oldest first
    mv_queue,       \* puts made and not settled, oldest first
    mv_faults       \* IndexedDB requests that failed

moveVars == <<mv_cards, mv_db, mv_timer, mv_calls, mv_last, mv_initialized,
              mv_dbs, mv_opens, mv_queue, mv_faults>>

VARIABLES
    hp_arrays,      \* the heap's arrays by reference: sequences of object
                    \* references, 0 for an undefined element
    hp_objs,        \* the heap's objects by reference
    hp_args,        \* the arguments of the call: array references, indexes
    hp_pre,         \* the heap as it was when the function was called
    hp_op,          \* which function has been applied ("none" before)
    hp_ret          \* the array references it returned

heapVars == <<hp_arrays, hp_objs, hp_args, hp_pre, hp_op, hp_ret>>

VARIABLES
    pg_columns,     \* BoardPage: the columns in state
    pg_cards,       \* BoardPage: the cards in state
    pg_dbColumns,   \* the durable 'columns' table (ids)
    pg_db,          \* the durable 'cards' table, id -> record
    pg_task,        \* the handlers in progress: position and locals
    pg_queue,       \* the IndexedDB requests made and not yet settled
    pg_faults,      \* IndexedDB requests that failed so far
    pg_nextId,      \* id of the next card createCard makes
    pg_overlap      \* a handler has started while another was awaiting

pageVars == <<pg_columns, pg_cards, pg_dbColumns, pg_db, pg_task, pg_queue,
              pg_faults, pg_nextId, pg_overlap>>

VARIABLES
    wr_version,     \* the in-memory state of the record: number of updates
    wr_timer,       \* the record the pending debounce timer holds, 0 if none
    wr_initialized, \* StorageService.initialized
    wr_dbs,         \* the Dexie instances adapter.init() made; this.db is the last
    wr_task,        \* the timer callbacks that ran, in the order they ran
    wr_opens,       \* callbacks awaiting adapter.init(), oldest first
    wr_queue,       \* puts made on the 'cards' table and not settled, oldest first
    wr_db,          \* the durable record, 0 if absent
    wr_applied,     \* the puts that took effect, in the order of their effect
    wr_faults       \* storage failures so far

writeVars == <<wr_version, wr_timer, wr_initialized, wr_dbs, wr_task, wr_opens,
               wr_queue, wr_db, wr_applied, wr_faults>>

svcVars == <<sv_kind, sv_dbs, sv_initialized, sv_tbl, sv_task,
             sv_initsIssued, sv_initsDone, sv_faults, sv_lastOp, sv_lastRes>>

vars == <<engVars, boardVars, storeVars, stgVars, adVars, ddVars, hierVars,
    searchVars, loadVars, updVars, expVars, svcVars, moveVars, heapVars,
    pageVars, writeVars>>

\* what the actions of one component leave alone
engFrame == <<boardVars, storeVars, stgVars, adVars, ddVars, hierVars,
    searchVars, loadVars, updVars, expVars, svcVars, moveVars, heapVars,
    pageVars, writeVars>>
boardFrame == <<engVars, storeVars, stgVars, adVars, ddVars, hierVars,
    searchVars, loadVars, updVars, expVars, svcVars, moveVars, heapVars,
    pageVars, writeVars>>
storeFrame == <<engVars, boardVars, stgVars, adVars, ddVars, hierVars,
    searchVars, loadVars, updVars, expVars, svcVars, moveVars, heapVars,
    pageVars, writeVars>>
stgFrame == <<engVars, boardVars, storeVars, adVars, ddVars, hierVars,
    searchVars, loadVars, updVars, expVars, svcVars, moveVars, heapVars,
    pageVars, writeVars>>
adFrame == <<engVars, boardVars, storeVars, stgVars, ddVars, hierVars,
    searchVars, loadVars, updVars, expVars, svcVars, moveVars, heapVars,
    pageVars, writeVars>>
ddFrame == <<engVars, boardVars, storeVars, stgVars, adVars, hierVars,
    searchVars, loadVars, updVars, expVars, svcVars, moveVars, heapVars,
    pageVars, writeVars>>
hierFrame == <<engVars, boardVars, storeVars, stgVars, adVars, ddVars,
    searchVars, loadVars, updVars, expVars, svcVars, moveVars, heapVars,
    pageVars, writeVars>>
searchFrame == <<engVars, boardVars, storeVars, stgVars, adVars, ddVars,
    hierVars, loadVars, updVars, expVars, svcVars, moveVars, heapVars,
    pageVars, writeVars>>
loadFrame == <<engVars, boardVars, storeVars, stgVars, adVars, ddVars,
    hierVars, searchVars, updVars, expVars, svcVars, moveVars, heapVars,
    pageVars, writeVars>>
updFrame == <<engVars, boardVars, storeVars, stgVars, adVars, ddVars,
    hierVars, searchVars, loadVars, expVars, svcVars, moveVars, heapVars,
    pageVars, writeVars>>
expFrame == <<engVars, boardVars, storeVars, stgVars, adVars, ddVars,
    hierVars, searchVars, loadVars, updVars, svcVars, moveVars, heapVars,
    pageVars, writeVars>>
svcFrame == <<engVars, boardVars, storeVars, stgVars, adVars, ddVars,
    hierVars, searchVars, loadVars, updVars, expVars, moveVars, heapVars,
    pageVars, writeVars>>
moveFrame == <<engVars, boardVars, storeVars, stgVars, adVars, ddVars,
    hierVars, searchVars, loadVars, updVars, expVars, svcVars, heapVars,
    pageVars, writeVars>>
heapFrame == <<engVars, boardVars, storeVars, stgVars, adVars, ddVars,
    hierVars, searchVars, loadVars, updVars, expVars, svcVars, moveVars,
    pageVars, writeVars>>
pageFrame == <<engVars, boardVars, storeVars, stgVars, adVars, ddVars,
    hierVars, searchVars, loadVars, updVars, expVars, svcVars, moveVars,
    heapVars, writeVars>>
writeFrame == <<engVars, boardVars, storeVars, stgVars, adVars, ddVars,
    hierVars, searchVars, loadVars, updVars, expVars, svcVars, moveVars,
    heapVars, pageVars>>

(***************************************************************************)
(* JavaScript helpers.                                                     *)
(***************************************************************************)
\* the value `undefined` where an array slot or a destructured value holds it
Undefined == [undefined |-> TRUE]

\* the value `null`
Null == [null |-> TRUE]

\* the own enumerable properties an object spread copies: none for undefined
Spread(x) == IF x = Undefined THEN [f \in {} |-> 0] ELSE x

\* {...a, ...b}
Merge(a, b) ==
    LET sa == Spread(a)
        sb == Spread(b)
    IN [f \in (DOMAIN sa) \cup (DOMAIN sb) |-> IF f \in DOMAIN sb THEN sb[f] ELSE sa[f]]

\* Array.prototype.splice(start, 1) for start >= 0: the array that is left
SpliceRemove(s, start) ==
    IF start < Len(s)
    THEN [k \in 1..(Len(s) - 1) |-> IF k <= start THEN s[k] ELSE s[k + 1]]
    ELSE s

\* Array.prototype.splice(start, 1) for start >= 0: first removed element
\* (`const [removed] = ...` of an empty array gives undefined)
SpliceRemoved(s, start) == IF start < Len(s) THEN s[start + 1] ELSE Undefined

\* Array.prototype.splice(start, 0, item) for start >= 0 (start is clamped
\* to the length)
SpliceInsert(s, start, item) ==
    LET at == IF start > Len(s) THEN Len(s) ELSE start
    IN [k \in 1..(Len(s) + 1) |->
          IF k <= at THEN s[k] ELSE IF k = at + 1 THEN item ELSE s[k - 1]]

(***************************************************************************)
(* dragUtils: reorder, move, updatePositions.                              *)
(***************************************************************************)
reorder_IndexInOldList(list, startIndex, endIndex) ==
    SpliceInsert(SpliceRemove(list, startIndex),
                 IF endIndex > startIndex THEN endIndex - 1 ELSE endIndex,
                 SpliceRemoved(list, startIndex))

reorder(list, startIndex, endIndex) ==
    SpliceInsert(SpliceRemove(list, startIndex), endIndex,
                 SpliceRemoved(list, startIndex))

move(source, destination, sourceIndex, destinationIndex) ==
    [source |-> SpliceRemove(source, sourceIndex),
     destination |-> SpliceInsert(destination, destinationIndex,
                                  SpliceRemoved(source, sourceIndex))]

updatePositions_NoRenumber(items) == items

updatePositions(items) ==
    [k \in 1..Len(items) |-> Merge(items[k], [position |-> k - 1])]

(***************************************************************************)
(* DragDropService.reorderItems / moveItem.                                *)
(***************************************************************************)
reorderItems(items, sourceIndex, destinationIndex) ==
    updatePositions(reorder(items, sourceIndex, destinationIndex))

moveItem_AppendToDest(sourceItems, destItems, sourceIndex, destinationIndex) ==
    LET m == move(sourceItems, destItems, sourceIndex, Len(destItems))
    IN [source |-> updatePositions(m.source),
        destination |-> updatePositions(m.destination)]

moveItem(sourceItems, destItems, sourceIndex, destinationIndex) ==
    LET m == move(sourceItems, destItems, sourceIndex, destinationIndex)
    IN [source |-> updatePositions(m.source),
        destination |-> updatePositions(m.destination)]

(***************************************************************************)
(* Values of the variables of a component that a specification does not    *)
(* exercise.                                                               *)
(***************************************************************************)
EngIdle ==
    /\ eng_items = <<>> /\ eng_dest = <<>> /\ eng_si = 0 /\ eng_di = 0
    /\ eng_op = "none" /\ eng_out = <<>> /\ eng_out2 = <<>>

BoardIdle ==
    /\ b_cards = <<>> /\ b_db = <<>> /\ b_nextId = 1
    /\ b_faults = 0 /\ b_last = [op |-> "none"]
    /\ b_inflight = <<>> /\ b_overlap = FALSE /\ b_calls = 0

StoreIdle ==
    /\ cs_cards = <<>> /\ cs_error = "null" /\ cs_timeoutId = 0
    /\ cs_timers = {} /\ cs_nextTimer = 1 /\ cs_inflight = <<>>
    /\ cs_db = <<>> /\ cs_saves = <<>> /\ cs_calls = 0 /\ cs_nextId = 1
    /\ cs_faults = 0 /\ cs_burst = <<>> /\ cs_lastFired = [timer |-> 0]
    /\ cs_lastCall = [op |-> "none"] /\ cs_onlyAddUpdate = TRUE
    /\ cs_watch = {}

StgIdle ==
    /\ st_blob = <<>> /\ st_adInit = FALSE /\ st_svcInit = FALSE
    /\ st_initCalls = 0 /\ st_task = <<>> /\ st_mq = <<>> /\ st_calls = <<>>
    /\ st_overlap = FALSE /\ st_faults = 0

AdIdle ==
    /\ ad_kind = "none" /\ ad_blob = <<>> /\ ad_tbl = <<>> /\ ad_init0 = <<>>
    /\ ad_task = <<>> /\ ad_mq = <<>> /\ ad_calls = <<>> /\ ad_log = <<>>
    /\ ad_overlap = FALSE /\ ad_faults = 0

DdIdle ==
    /\ dd_dragState = <<>> /\ dd_listeners = <<>> /\ dd_handles = {}
    /\ dd_notified = <<>> /\ dd_last = [op |-> "none"] /\ dd_ncalls = 0

SvcIdle ==
    /\ sv_kind = "none" /\ sv_dbs = <<>>
    /\ sv_initialized = FALSE /\ sv_tbl = {} /\ sv_task = <<>>
    /\ sv_initsIssued = 0 /\ sv_initsDone = 0 /\ sv_faults = 0
    /\ sv_lastOp = [method |-> "none"] /\ sv_lastRes = [method |-> "none"]

MoveIdle ==
    /\ mv_cards = <<>> /\ mv_db = <<>> /\ mv_timer = {} /\ mv_calls = 0
    /\ mv_last = [op |-> "none"]
    /\ mv_initialized = FALSE /\ mv_dbs = <<>> /\ mv_opens = <<>>
    /\ mv_queue = <<>> /\ mv_faults = 0

HeapIdle ==
    /\ hp_arrays = <<>> /\ hp_objs = <<>> /\ hp_args = <<>> /\ hp_pre = <<>>
    /\ hp_op = "none" /\ hp_ret = <<>>

PageIdle ==
    /\ pg_columns = {} /\ pg_cards = <<>> /\ pg_dbColumns = {} /\ pg_db = <<>>
    /\ pg_task = <<>> /\ pg_queue = <<>> /\ pg_faults = 0
    /\ pg_nextId = 0 /\ pg_overlap = FALSE

WriteIdle ==
    /\ wr_version = 0 /\ wr_timer = 0 /\ wr_initialized = FALSE
    /\ wr_dbs = <<>> /\ wr_task = <<>> /\ wr_opens = <<>> /\ wr_queue = <<>>
    /\ wr_db = 0 /\ wr_applied = <<>> /\ wr_faults = 0

ExpIdle ==
    /\ xp_board = <<>> /\ xp_columns = <<>> /\ xp_cards = <<>>
    /\ xp_op = "none" /\ xp_out = <<>>

UpdIdle ==
    /\ up_cards = <<>> /\ up_orig = <<>> /\ up_db = <<>> /\ up_timer = {}
    /\ up_written = <<>> /\ up_calls = 0
    /\ up_initialized = FALSE /\ up_dbs = <<>> /\ up_opens = <<>>
    /\ up_queue = <<>> /\ up_faults = 0

LoadIdle ==
    /\ ld_kind = "none" /\ ld_db = {} /\ ld_items = <<>>
    /\ ld_initialized = FALSE /\ ld_loading = FALSE /\ ld_task = <<>>
    /\ ld_fullLoads = 0 /\ ld_faults = 0 /\ ld_last = [op |-> "none"]
    /\ ld_timer = {} /\ ld_added = {} /\ ld_saves = <<>>

SearchIdle ==
    /\ sf_cards = <<>> /\ sf_db = <<>> /\ sf_columns = {}
    /\ sf_query = FALSE /\ sf_active = FALSE /\ sf_loading = FALSE
    /\ sf_effect = FALSE /\ sf_loads = 0 /\ sf_timer = {} /\ sf_queue = <<>>
    /\ sf_faults = 0 /\ sf_drops = 0 /\ sf_last = [op |-> "none"]
    /\ sf_inflight = <<>>

HierIdle ==
    /\ h_boards = {} /\ h_columns = {} /\ h_cards = {}
    /\ h_dbBoards = {} /\ h_dbColumns = {} /\ h_dbCards = {}
    /\ h_variant = "none" /\ h_timer = {}
    /\ h_faults = 0 /\ h_last = [op |-> "none"]
    /\ h_page = "null" /\ h_activeBoard = "null" /\ h_appBoards = {}
    /\ h_used = {} /\ h_inflight = {} /\ h_queue = <<>> /\ h_calls = 0
    /\ h_init = {} /\ h_opens = <<>>
    /\ h_loading = FALSE /\ h_effect = FALSE /\ h_loads = 0

EngFrameIdle ==
    BoardIdle /\ StoreIdle /\ StgIdle /\ AdIdle /\ DdIdle /\ HierIdle /\
    SearchIdle /\ LoadIdle /\ UpdIdle /\ ExpIdle /\ SvcIdle /\ MoveIdle /\
    HeapIdle /\ PageIdle /\ WriteIdle
BoardFrameIdle ==
    EngIdle /\ StoreIdle /\ StgIdle /\ AdIdle /\ DdIdle /\ HierIdle /\
    SearchIdle /\ LoadIdle /\ UpdIdle /\ ExpIdle /\ SvcIdle /\ MoveIdle /\
    HeapIdle /\ PageIdle /\ WriteIdle
StoreFrameIdle ==
    EngIdle /\ BoardIdle /\ StgIdle /\ AdIdle /\ DdIdle /\ HierIdle /\
    SearchIdle /\ LoadIdle /\ UpdIdle /\ ExpIdle /\ SvcIdle /\ MoveIdle /\
    HeapIdle /\ PageIdle /\ WriteIdle
StgFrameIdle ==
    EngIdle /\ BoardIdle /\ StoreIdle /\ AdIdle /\ DdIdle /\ HierIdle /\
    SearchIdle /\ LoadIdle /\ UpdIdle /\ ExpIdle /\ SvcIdle /\ MoveIdle /\
    HeapIdle /\ PageIdle /\ WriteIdle
AdFrameIdle ==
    EngIdle /\ BoardIdle /\ StoreIdle /\ StgIdle /\ DdIdle /\ HierIdle /\
    SearchIdle /\ LoadIdle /\ UpdIdle /\ ExpIdle /\ SvcIdle /\ MoveIdle /\
    HeapIdle /\ PageIdle /\ WriteIdle
DdFrameIdle ==
    EngIdle /\ BoardIdle /\ StoreIdle /\ StgIdle /\ AdIdle /\ HierIdle /\
    SearchIdle /\ LoadIdle /\ UpdIdle /\ ExpIdle /\ SvcIdle /\ MoveIdle /\
    HeapIdle /\ PageIdle /\ WriteIdle
HierFrameIdle ==
    EngIdle /\ BoardIdle /\ StoreIdle /\ StgIdle /\ AdIdle /\ DdIdle /\
    SearchIdle /\ LoadIdle /\ UpdIdle /\ ExpIdle /\ SvcIdle /\ MoveIdle /\
    HeapIdle /\ PageIdle /\ WriteIdle
SearchFrameIdle ==
    EngIdle /\ BoardIdle /\ StoreIdle /\ StgIdle /\ AdIdle /\ DdIdle /\
    HierIdle /\ LoadIdle /\ UpdIdle /\ ExpIdle /\ SvcIdle /\ MoveIdle /\
    HeapIdle /\ PageIdle /\ WriteIdle
LoadFrameIdle ==
    EngIdle /\ BoardIdle /\ StoreIdle /\ StgIdle /\ AdIdle /\ DdIdle /\
    HierIdle /\ SearchIdle /\ UpdIdle /\ ExpIdle /\ SvcIdle /\ MoveIdle /\
    HeapIdle /\ PageIdle /\ WriteIdle
UpdFrameIdle ==
    EngIdle /\ BoardIdle /\ StoreIdle /\ StgIdle /\ AdIdle /\ DdIdle /\
    HierIdle /\ SearchIdle /\ LoadIdle /\ ExpIdle /\ SvcIdle /\ MoveIdle /\
    HeapIdle /\ PageIdle /\ WriteIdle
ExpFrameIdle ==
    EngIdle /\ BoardIdle /\ StoreIdle /\ StgIdle /\ AdIdle /\ DdIdle /\
    HierIdle /\ SearchIdle /\ LoadIdle /\ UpdIdle /\ SvcIdle /\ MoveIdle /\
    HeapIdle /\ PageIdle /\ WriteIdle
SvcFrameIdle ==
    EngIdle /\ BoardIdle /\ StoreIdle /\ StgIdle /\ AdIdle /\ DdIdle /\
    HierIdle /\ SearchIdle /\ LoadIdle /\ UpdIdle /\ ExpIdle /\ MoveIdle /\
    HeapIdle /\ PageIdle /\ WriteIdle
MoveFrameIdle ==
    EngIdle /\ BoardIdle /\ StoreIdle /\ StgIdle /\ AdIdle /\ DdIdle /\
    HierIdle /\ SearchIdle /\ LoadIdle /\ UpdIdle /\ ExpIdle /\ SvcIdle /\
    HeapIdle /\ PageIdle /\ WriteIdle
HeapFrameIdle ==
    EngIdle /\ BoardIdle /\ StoreIdle /\ StgIdle /\ AdIdle /\ DdIdle /\
    HierIdle /\ SearchIdle /\ LoadIdle /\ UpdIdle /\ ExpIdle /\ SvcIdle /\
    MoveIdle /\ PageIdle /\ WriteIdle
PageFrameIdle ==
    EngIdle /\ BoardIdle /\ StoreIdle /\ StgIdle /\ AdIdle /\ DdIdle /\
    HierIdle /\ SearchIdle /\ LoadIdle /\ UpdIdle /\ ExpIdle /\ SvcIdle /\
    MoveIdle /\ HeapIdle /\ WriteIdle
WriteFrameIdle ==
    EngIdle /\ BoardIdle /\ StoreIdle /\ StgIdle /\ AdIdle /\ DdIdle /\
    HierIdle /\ SearchIdle /\ LoadIdle /\ UpdIdle /\ ExpIdle /\ SvcIdle /\
    MoveIdle /\ HeapIdle /\ PageIdle

(***************************************************************************)
(* Engine specification: inputs are drawn in Init, one action per          *)
(* function applies it.                                                    *)
(***************************************************************************)
SrcIds == 1..NumCards
DstIds == (NumCards + 1)..(NumCards + NumDestCards)

\* sequences of records with pairwise distinct ids from ids, any positions
ItemSeqs(ids, maxLen) ==
    UNION { { s \in [1..n -> [id : ids, position : 0..MaxPos]] :
                \A i, j \in 1..n : i # j => s[i].id # s[j].id } : n \in 0..maxLen }

EngInit ==
    /\ eng_items \in ItemSeqs(SrcIds, NumCards)
    /\ eng_dest \in ItemSeqs(DstIds, NumDestCards)
    /\ eng_si \in 0..NumCards
    /\ eng_di \in 0..NumCards
    /\ eng_op = "none"
    /\ eng_out = <<>>
    /\ eng_out2 = <<>>
    /\ EngFrameIdle

EngReorderItems ==
    /\ eng_op = "none"
    /\ eng_op' = "reorderItems"
    /\ eng_out' = reorderItems(eng_items, eng_si, eng_di)
    /\ eng_out2' = <<>>
    /\ UNCHANGED <<eng_items, eng_dest, eng_si, eng_di>>
    /\ UNCHANGED engFrame

EngMoveItem ==
    /\ eng_op = "none"
    /\ eng_op' = "moveItem"
    /\ LET r == moveItem(eng_items, eng_dest, eng_si, eng_di)
       IN /\ eng_out' = r.source
          /\ eng_out2' = r.destination
    /\ UNCHANGED <<eng_items, eng_dest, eng_si, eng_di>>
    /\ UNCHANGED engFrame

\* reorderItems from sourceIndex to destinationIndex, then reorderItems of
\* the result from destinationIndex back to sourceIndex
EngReorderThereAndBack ==
    /\ eng_op = "none"
    /\ eng_op' = "reorderThereAndBack"
    /\ eng_out2' = reorderItems(eng_items, eng_si, eng_di)
    /\ eng_out' = reorderItems(reorderItems(eng_items, eng_si, eng_di), eng_di, eng_si)
    /\ UNCHANGED <<eng_items, eng_dest, eng_si, eng_di>>
    /\ UNCHANGED engFrame

\* dragUtils.reorder applied to the drawn list as it is (no renumbering)
EngReorder ==
    /\ eng_op = "none"
    /\ eng_op' = "reorder"
    /\ eng_out' = reorder(eng_items, eng_si, eng_di)
    /\ eng_out2' = <<>>
    /\ UNCHANGED <<eng_items, eng_dest, eng_si, eng_di>>
    /\ UNCHANGED engFrame

EngNext ==
    EngReorderItems \/ EngMoveItem \/ EngReorderThereAndBack \/ EngReorder

SpecEngine == EngInit /\ [][EngNext]_vars

\* ids of a sequence of records, in order
IdsOf(s) == [k \in 1..Len(s) |-> s[k].id]

\* C1: for valid indices, reorderItems returns a sequence of the same
\* length whose record at index k has position k, so the positions are
\* exactly 0..n-1 without gaps or duplicates.
C1_ReorderItemsRenumbers ==
    (eng_op = "reorderItems" /\ eng_si < Len(eng_items) /\ eng_di < Len(eng_items))
        => /\ Len(eng_out) = Len(eng_items)
           /\ \A k \in 1..Len(eng_out) : eng_out[k].position = k - 1
           /\ {eng_out[k].position : k \in 1..Len(eng_out)} = 0..(Len(eng_items) - 1)
           /\ {eng_out[k].id : k \in 1..Len(eng_out)} = {eng_items[k].id : k \in 1..Len(eng_items)}

\* a reorder of three records whose input positions were not contiguous
C1_Witness ==
    /\ eng_op = "reorderItems"
    /\ Len(eng_items) = 3
    /\ eng_si = 0 /\ eng_di = 2
    /\ \A k \in 1..3 : eng_items[k].position = 1
    /\ IdsOf(eng_out) = <<eng_items[2].id, eng_items[3].id, eng_items[1].id>>

\* C2: for sourceIndex < len(source) and destinationIndex <= len(destination),
\* moveItem returns the source without the record at sourceIndex and the
\* destination with that record inserted at destinationIndex, the others in
\* their relative order, and every record's position equal to its index.
C2_MoveItemMoves ==
    (eng_op = "moveItem" /\ eng_si < Len(eng_items) /\ eng_di <= Len(eng_dest))
        => /\ Len(eng_out) = Len(eng_items) - 1
           /\ Len(eng_out2) = Len(eng_dest) + 1
           /\ \A k \in 1..Len(eng_out) :
                 eng_out[k].id = eng_items[IF k <= eng_si THEN k ELSE k + 1].id
           /\ eng_out2[eng_di + 1].id = eng_items[eng_si + 1].id
           /\ \A k \in 1..Len(eng_dest) :
                 eng_out2[IF k <= eng_di THEN k ELSE k + 1].id = eng_dest[k].id
           /\ \A k \in 1..Len(eng_out) : eng_out[k].position = k - 1
           /\ \A k \in 1..Len(eng_out2) : eng_out2[k].position = k - 1

\* a move out of the middle of three records to the front of a non-empty
\* destination
C2_Witness ==
    /\ eng_op = "moveItem"
    /\ Len(eng_items) = 3 /\ eng_si = 1
    /\ Len(eng_dest) = 2 /\ eng_di = 0
    /\ eng_out2[1].id = eng_items[2].id
    /\ Len(eng_out) = 2

\* C20: for valid indices i, j < len(seq), reordering seq from i to j and
\* then the result from j to i, renumbering after each step, gives a sequence
\* with the id order of seq.
C20_ReorderRoundTrip ==
    (/\ eng_op = "reorderThereAndBack"
     /\ eng_si < Len(eng_items) /\ eng_di < Len(eng_items))
        => /\ IdsOf(eng_out) = IdsOf(eng_items)
           /\ \A k \in 1..Len(eng_out) : eng_out[k].position = k - 1

\* the first of three records moved to the end and back: the order in
\* between differs from the original
C20_Witness ==
    /\ eng_op = "reorderThereAndBack"
    /\ Len(eng_items) = 3
    /\ eng_si = 0 /\ eng_di = 2
    /\ IdsOf(eng_out2) = <<eng_items[2].id, eng_items[3].id, eng_items[1].id>>
    /\ IdsOf(eng_out) = IdsOf(eng_items)

\* the sequence s without its element at 0-based index i
Without(s, i) == [k \in 1..(Len(s) - 1) |-> IF k <= i THEN s[k] ELSE s[k + 1]]

\* C21: for valid indices fromIndex, toIndex < len(list), reorder returns a
\* permutation of the list (same length, same elements) in which the element
\* that was at fromIndex is at toIndex and the other elements are in their
\* original relative order.
C21_ReorderIsPermutation ==
    (eng_op = "reorder" /\ eng_si < Len(eng_items) /\ eng_di < Len(eng_items))
        => /\ Len(eng_out) = Len(eng_items)
           /\ {eng_out[k] : k \in 1..Len(eng_out)}
                = {eng_items[k] : k \in 1..Len(eng_items)}
           /\ eng_out[eng_di + 1] = eng_items[eng_si + 1]
           /\ Without(eng_out, eng_di) = Without(eng_items, eng_si)

\* [A,B,C] with 0 -> 2 gives [B,C,A], the records themselves untouched
C21_Witness ==
    /\ eng_op = "reorder"
    /\ Len(eng_items) = 3
    /\ eng_si = 0 /\ eng_di = 2
    /\ Len(eng_out) = 3
    /\ eng_out[1] = eng_items[2]
    /\ eng_out[2] = eng_items[3]
    /\ eng_out[3] = eng_items[1]

(***************************************************************************)
(* Board page (pages/BoardPage.js) over the reducer store                  *)
(* (state/store.js) and the card actions (state/cards with utils/storage). *)
(* A card is [id, columnId, position]; its text fields and its             *)
(* Date.now() stamps are not read by any handler below and are left out.   *)
(* The columns of the board exist beforehand.  A handler runs up to its    *)
(* await, with every IndexedDB operation it makes issued by then, and      *)
(* resumes when the last of them has settled; another handler may be       *)
(* called in between.  The operations on the one 'cards' table settle in   *)
(* the order they were made, each failing or succeeding on its own.        *)
(***************************************************************************)
ColIds == {"col1", "col2"}

\* Array.prototype.filter(c => c.columnId === col)
ColumnFilter(cards, col) == SelectSeq(cards, LAMBDA c : c.columnId = col)

\* Array.prototype.sort((a, b) => a.position - b.position), which is stable
RECURSIVE SortByPosition(_)
SortByPosition(s) ==
    IF Len(s) <= 1 THEN s
    ELSE LET h == Head(s)
             rest == SortByPosition(Tail(s))
             n == Cardinality({k \in 1..Len(rest) : rest[k].position < h.position})
         IN SubSeq(rest, 1, n) \o <<h>> \o SubSeq(rest, n + 1, Len(rest))

\* the cards a column shows when no search filter is active
ColumnCards(cards, col) == SortByPosition(ColumnFilter(cards, col))

\* Array.prototype.find(c => c.id === id)
FindById(s, id) ==
    IF \E k \in 1..Len(s) : s[k].id = id
    THEN s[CHOOSE k \in 1..Len(s) :
               s[k].id = id /\ \A j \in 1..(k - 1) : s[j].id # id]
    ELSE Undefined

\* cardActions.createCard: `cardData.position || 0`
createCard(id, cardData) ==
    [id |-> id, columnId |-> cardData.columnId,
     position |-> IF cardData.position = 0 THEN 0 ELSE cardData.position]

\* cardActions.updateCard: the record that is saved and returned
cardsUpdateCard(cardId, updates) == Merge(updates, [id |-> cardId])

\* appReducer
ReduceAddCard(cards, payload) == Append(cards, payload)

ReduceUpdateCard(cards, payload) ==
    [k \in 1..Len(cards) |->
        IF cards[k].id = payload.id THEN Merge(cards[k], payload) ELSE cards[k]]

ReduceDeleteCard(cards, id) == SelectSeq(cards, LAMBDA c : c.id # id)

\* updatedCards.forEach(c => dispatch({type: UPDATE_CARD, payload: c}))
RECURSIVE DispatchUpdates(_, _)
DispatchUpdates(cards, payloads) ==
    IF payloads = <<>> THEN cards
    ELSE DispatchUpdates(ReduceUpdateCard(cards, Head(payloads)), Tail(payloads))

\* db.cards.put / db.cards.delete
DbPut(db, rec) ==
    [x \in (DOMAIN db) \cup {rec.id} |-> IF x = rec.id THEN rec ELSE db[x]]

DbDelete(db, id) == [x \in (DOMAIN db) \ {id} |-> db[x]]

RECURSIVE DbPutAll(_, _)
DbPutAll(db, recs) ==
    IF recs = <<>> THEN db ELSE DbPutAll(DbPut(db, Head(recs)), Tail(recs))

\* list.forEach((card, index) => { if (card.position !== index) updates.push(
\*   updateCard(card.id, {...card, position: index})) }), from index k - 1 on
RECURSIVE PositionFixes(_, _)
PositionFixes(list, k) ==
    IF k > Len(list) THEN <<>>
    ELSE (IF list[k].position # k - 1
          THEN <<cardsUpdateCard(list[k].id, Merge(list[k], [position |-> k - 1]))>>
          ELSE <<>>) \o PositionFixes(list, k + 1)

\* handleDragEnd, same column: the records updateCard saves and returns
DragSameUpdates(cards, col, si, di) ==
    LET columnCards == ColumnCards(cards, col)
        moved == SpliceInsert(SpliceRemove(columnCards, si), di,
                              SpliceRemoved(columnCards, si))
    IN [k \in 1..Len(moved) |->
          cardsUpdateCard(moved[k].id, Merge(moved[k], [position |-> k - 1]))]

DragCrossUpdates_NoSourceFixes(cards, src, dst, di, draggableId) ==
    LET sourceCards == ColumnCards(cards, src)
        destCards == ColumnCards(cards, dst)
        movedCard == FindById(sourceCards, draggableId)
        updatedMovedCard == Merge(movedCard, [columnId |-> dst, position |-> di])
        newDestCards == SpliceInsert(destCards, di, updatedMovedCard)
    IN <<cardsUpdateCard(draggableId, updatedMovedCard)>>
       \o PositionFixes(newDestCards, 1)

\* handleDragEnd, different columns: the records updateCard saves and returns
DragCrossUpdates(cards, src, dst, di, draggableId) ==
    LET sourceCards == ColumnCards(cards, src)
        destCards == ColumnCards(cards, dst)
        movedCard == FindById(sourceCards, draggableId)
        updatedMovedCard == Merge(movedCard, [columnId |-> dst, position |-> di])
        newSourceCards == SelectSeq(sourceCards, LAMBDA c : c.id # draggableId)
        newDestCards == SpliceInsert(destCards, di, updatedMovedCard)
    IN <<cardsUpdateCard(draggableId, updatedMovedCard)>>
       \o PositionFixes(newSourceCards, 1)
       \o PositionFixes(newDestCards, 1)

\* the positions of a column's cards are exactly 0..n-1
Contiguous(cards, col) ==
    LET cc == ColumnFilter(cards, col)
    IN /\ {cc[k].position : k \in 1..Len(cc)} = 0..(Len(cc) - 1)
       /\ \A i, j \in 1..Len(cc) : i # j => cc[i].position # cc[j].position

\* whether an IndexedDB operation succeeds (saveToIndexedDB and
\* deleteFromIndexedDB catch a failure and return false)
StorageOutcomes == IF b_faults < MaxStorageFaults THEN {TRUE, FALSE} ELSE {TRUE}

\* db.cards.put(data) / db.cards.delete(key), made and not yet settled
OpPut(rec) == [op |-> "put", rec |-> rec]

OpDelete(id) == [op |-> "delete", id |-> id]

PutsOf(recs) == [k \in 1..Len(recs) |-> OpPut(recs[k])]

\* the effect of a settled operation on the table
DbApply(db, o, ok) ==
    IF ~ok THEN db
    ELSE IF o.op = "put" THEN DbPut(db, o.rec) ELSE DbDelete(db, o.id)

\* what a handler dispatches when it resumes from its await
BoardDispatch(cards, h) ==
    CASE h.kind = "addCard" -> ReduceAddCard(cards, h.payloads[1])
      [] h.kind = "deleteCard" -> ReduceDeleteCard(cards, h.last.id)
      [] OTHER -> DispatchUpdates(cards, h.payloads)

BoardInit ==
    /\ b_cards = <<>>
    /\ b_db = <<>>
    /\ b_nextId = 1
    /\ b_faults = 0
    /\ b_last = [op |-> "none"]
    /\ b_inflight = <<>>
    /\ b_overlap = FALSE
    /\ b_calls = 0
    /\ BoardFrameIdle

\* a handler reaches its await: it joins the handlers in flight, and the
\* ones already there are no longer alone
BoardAwait(kind, ops, payloads, last) ==
    /\ Len(b_inflight) < MaxBoardInFlight
    /\ b_calls < MaxBoardCalls
    /\ b_calls' = b_calls + 1
    /\ b_inflight' =
          Append([k \in 1..Len(b_inflight) |->
                     [b_inflight[k] EXCEPT !.alone = FALSE]],
                 [kind |-> kind, ops |-> ops, payloads |-> payloads,
                  last |-> last, alone |-> b_inflight = <<>>])
    /\ b_overlap' = (b_overlap \/ b_inflight # <<>>)

\* handleAddCard(columnId, cardData) up to `await cardActions.createCard`
BoardAddCard ==
    \E col \in ColIds :
        /\ b_nextId <= MaxBoardCards
        /\ LET columnCards == ColumnFilter(b_cards, col)
               newCard == createCard(b_nextId,
                              [columnId |-> col, position |-> Len(columnCards)])
           IN BoardAwait("addCard", <<OpPut(newCard)>>, <<newCard>>,
                         [op |-> "addCard", id |-> newCard.id, dst |-> col])
        /\ b_nextId' = b_nextId + 1
        /\ UNCHANGED <<b_cards, b_db, b_faults, b_last>>
        /\ UNCHANGED boardFrame

\* handleUpdateCard(cardId, updates), called by handleEditCard from a card
\* that is shown, up to `await cardActions.updateCard`: the whole card is
\* saved again with the new title
BoardUpdateCard ==
    \E k \in 1..Len(b_cards) :
        LET cardId == b_cards[k].id
            updatedCard == cardsUpdateCard(cardId, FindById(b_cards, cardId))
        IN /\ BoardAwait("updateCard", <<OpPut(updatedCard)>>, <<updatedCard>>,
                         [op |-> "updateCard", id |-> cardId])
           /\ UNCHANGED <<b_cards, b_db, b_nextId, b_faults, b_last>>
           /\ UNCHANGED boardFrame

\* handleDeleteCard(cardId), called from a card that is shown, up to
\* `await cardActions.deleteCard`
BoardDeleteCard ==
    \E k \in 1..Len(b_cards) :
        LET cardId == b_cards[k].id
        IN /\ BoardAwait("deleteCard", <<OpDelete(cardId)>>, <<>>,
                         [op |-> "deleteCard", id |-> cardId])
           /\ UNCHANGED <<b_cards, b_db, b_nextId, b_faults, b_last>>
           /\ UNCHANGED boardFrame

\* handleDragEnd(result) returning early: dropped outside any droppable, or
\* dropped where it was picked up
BoardDragEndNoop ==
    \E src \in ColIds, toNull \in BOOLEAN :
        \E si \in 0..(Len(ColumnCards(b_cards, src)) - 1) :
            /\ b_calls < MaxBoardCalls
            /\ b_calls' = b_calls + 1
            /\ b_last' = [op |-> "dragEnd", type |-> "CARD", src |-> src, si |-> si,
                          id |-> ColumnCards(b_cards, src)[si + 1].id,
                          dst |-> IF toNull THEN "null" ELSE src, di |-> si,
                          pre |-> \A c \in ColIds : Contiguous(b_cards, c),
                          alone |-> b_inflight = <<>>]
            /\ UNCHANGED <<b_cards, b_db, b_nextId, b_faults, b_inflight,
                           b_overlap>>
            /\ UNCHANGED boardFrame

\* handleDragEnd(result), type CARD, source and destination the same
\* column, up to `await Promise.all(updatePromises)`
BoardDragEndSame ==
    \E col \in ColIds :
        \E si, di \in 0..(Len(ColumnCards(b_cards, col)) - 1) :
            /\ si # di
            /\ LET updatedCards == DragSameUpdates(b_cards, col, si, di)
               IN BoardAwait("dragEnd", PutsOf(updatedCards), updatedCards,
                     [op |-> "dragEnd", type |-> "CARD", src |-> col, si |-> si,
                      id |-> ColumnCards(b_cards, col)[si + 1].id,
                      dst |-> col, di |-> di,
                      pre |-> \A c \in ColIds : Contiguous(b_cards, c)])
            /\ UNCHANGED <<b_cards, b_db, b_nextId, b_faults, b_last>>
            /\ UNCHANGED boardFrame

\* handleDragEnd(result), type CARD, destination another column, up to
\* `await Promise.all(updates)`
BoardDragEndCross ==
    \E src \in ColIds, dst \in ColIds :
        \E si \in 0..(Len(ColumnCards(b_cards, src)) - 1),
           di \in 0..Len(ColumnCards(b_cards, dst)) :
            /\ src # dst
            /\ LET draggableId == ColumnCards(b_cards, src)[si + 1].id
                   allUpdatedCards == DragCrossUpdates(b_cards, src, dst, di, draggableId)
               IN BoardAwait("dragEnd", PutsOf(allUpdatedCards), allUpdatedCards,
                     [op |-> "dragEnd", type |-> "CARD", src |-> src,
                      si |-> si, id |-> draggableId, dst |-> dst, di |-> di,
                      pre |-> \A c \in ColIds : Contiguous(b_cards, c)])
            /\ UNCHANGED <<b_cards, b_db, b_nextId, b_faults, b_last>>
            /\ UNCHANGED boardFrame

\* the oldest IndexedDB operation settles.  When it is the last one its
\* handler awaits, the handler resumes in the same task: it dispatches
\* whether or not the operations succeeded (their results are not read).
BoardStorageSettles ==
    \E ok \in StorageOutcomes :
        /\ b_inflight # <<>>
        /\ LET h == Head(b_inflight)
           IN /\ b_db' = DbApply(b_db, Head(h.ops), ok)
              /\ IF Len(h.ops) = 1
                 THEN /\ b_cards' = BoardDispatch(b_cards, h)
                      /\ b_last' = Merge(h.last, [alone |-> h.alone])
                      /\ b_inflight' = Tail(b_inflight)
                 ELSE /\ b_inflight' = [b_inflight EXCEPT ![1].ops = Tail(@)]
                      /\ UNCHANGED <<b_cards, b_last>>
        /\ b_faults' = IF ok THEN b_faults ELSE b_faults + 1
        /\ UNCHANGED <<b_nextId, b_overlap, b_calls>>
        /\ UNCHANGED boardFrame

BoardNext ==
    \/ BoardAddCard
    \/ BoardUpdateCard
    \/ BoardDeleteCard
    \/ BoardDragEndNoop
    \/ BoardDragEndSame
    \/ BoardDragEndCross
    \/ BoardStorageSettles

SpecBoard == BoardInit /\ [][BoardNext]_vars

\* C3: after a CARD drop from one column onto another, both columns having
\* contiguous positions beforehand, the source column's positions are
\* exactly 0..n-1, the destination column's are exactly 0..m-1 with the
\* dragged card at destination.index, and the dragged card's columnId is the
\* destination column.
C3_CrossColumnDrop ==
    (b_last.op = "dragEnd" /\ b_last.dst \in ColIds /\ b_last.dst # b_last.src
       /\ b_last.pre /\ b_last.alone)
        => /\ Contiguous(b_cards, b_last.src)
           /\ Contiguous(b_cards, b_last.dst)
           /\ FindById(b_cards, b_last.id).columnId = b_last.dst
           /\ FindById(b_cards, b_last.id).position = b_last.di
           /\ ColumnCards(b_cards, b_last.dst)[b_last.di + 1].id = b_last.id

\* the spec's scenario shape: the middle one of three cards dropped at the
\* front of a column that holds one card
C3_Witness ==
    /\ b_last.op = "dragEnd" /\ b_last.pre /\ b_last.alone
    /\ b_last.src = "col1" /\ b_last.dst = "col2"
    /\ b_last.si = 1 /\ b_last.di = 0
    /\ Len(ColumnFilter(b_cards, "col1")) = 1
    /\ Len(ColumnFilter(b_cards, "col2")) = 2
    /\ ColumnCards(b_cards, "col2")[1].id = b_last.id

\* C4: after any sequence of completed card handlers from an empty board,
\* the positions of each column's cards are unique and contiguous from 0.
C4_PositionsContiguous ==
    (~b_overlap /\ b_inflight = <<>>) => \A c \in ColIds : Contiguous(b_cards, c)

(***************************************************************************)
(* Card store (stores/cardStore.js): optimistic in-memory updates and the  *)
(* debounced persist.  A storage request is issued when a timer fires or   *)
(* deleteCard is called and completes later; requests against the one      *)
(* 'cards' table complete in the order they were issued.  Date.now() is    *)
(* the number of the store call.                                           *)
(***************************************************************************)
Updates == {[position |-> 1], [columnId |-> "col2", position |-> 0]}

\* the debounce closure and the timers it has set
Debounce == [timeoutId |-> cs_timeoutId, timers |-> cs_timers, nextTimer |-> cs_nextTimer]

debouncedPersist_NoClear(d, data) ==
    [timeoutId |-> d.nextTimer,
     timers |-> d.timers \cup {[id |-> d.nextTimer, data |-> data]},
     nextTimer |-> d.nextTimer + 1]

\* the function createDebouncedPersist returns: clearTimeout, then setTimeout
debouncedPersist(d, data) ==
    LET cleared == IF d.timeoutId # 0
                   THEN {t \in d.timers : t.id # d.timeoutId}
                   ELSE d.timers
    IN [timeoutId |-> d.nextTimer,
        timers |-> cleared \cup {[id |-> d.nextTimer, data |-> data]},
        nextTimer |-> d.nextTimer + 1]

RECURSIVE PersistAll(_, _)
PersistAll(d, recs) ==
    IF recs = <<>> THEN d ELSE PersistAll(debouncedPersist(d, Head(recs)), Tail(recs))

\* updateCard: state.cards.map(...)
storeUpdateCards(cards, cardId, updates, now) ==
    [k \in 1..Len(cards) |->
        IF cards[k].id = cardId
        THEN Merge(Merge(cards[k], updates), [updatedAt |-> now])
        ELSE cards[k]]

\* batchUpdateCards: state.cards.map(...), cardUpdates looked up by card id
storeBatchUpdateCards(cards, cardUpdates, now) ==
    [k \in 1..Len(cards) |->
        IF cards[k].id \in DOMAIN cardUpdates
        THEN Merge(Merge(cards[k], cardUpdates[cards[k].id]), [updatedAt |-> now])
        ELSE cards[k]]

\* batchUpdateCards: the records handed to debouncedPersist, in array order
RECURSIVE BatchPersisted(_, _, _, _)
BatchPersisted(cards, cardUpdates, now, k) ==
    IF k > Len(cards) THEN <<>>
    ELSE (IF cards[k].id \in DOMAIN cardUpdates
          THEN <<Merge(Merge(cards[k], cardUpdates[cards[k].id]), [updatedAt |-> now])>>
          ELSE <<>>) \o BatchPersisted(cards, cardUpdates, now, k + 1)

Now == cs_calls + 1

StoreOutcomes == IF cs_faults < MaxStorageFaults THEN {TRUE, FALSE} ELSE {TRUE}

\* no timer pending and no storage request in flight
Quiescent == cs_timers = {} /\ cs_inflight = <<>>

\* the timer that holds a save of card id, 0 if none
PendingTimerOf(id) ==
    IF \E t \in cs_timers : t.data.id = id
    THEN (CHOOSE t \in cs_timers : t.data.id = id).id
    ELSE 0

StoreInit ==
    /\ cs_cards = <<>>
    /\ cs_error = "null"
    /\ cs_timeoutId = 0
    /\ cs_timers = {}
    /\ cs_nextTimer = 1
    /\ cs_inflight = <<>>
    /\ cs_db = <<>>
    /\ cs_saves = <<>>
    /\ cs_calls = 0
    /\ cs_nextId = 1
    /\ cs_faults = 0
    /\ cs_burst = <<>>
    /\ cs_lastFired = [timer |-> 0]
    /\ cs_lastCall = [op |-> "none"]
    /\ cs_onlyAddUpdate = TRUE
    /\ cs_watch = {}
    /\ StoreFrameIdle

SetDebounce(d) ==
    /\ cs_timeoutId' = d.timeoutId
    /\ cs_timers' = d.timers
    /\ cs_nextTimer' = d.nextTimer

\* addCard(card), the card made by the caller with a fresh id and the next
\* position of its column
StoreAddCard ==
    \E col \in ColIds :
        /\ cs_calls < MaxStoreCalls
        /\ cs_nextId <= MaxStoreCards
        /\ LET card == [id |-> cs_nextId, columnId |-> col,
                        position |-> Len(ColumnFilter(cs_cards, col)),
                        updatedAt |-> Now]
           IN /\ cs_cards' = Append(cs_cards, card)
              /\ SetDebounce(debouncedPersist(Debounce, card))
              /\ cs_burst' = Append(cs_burst, [op |-> "addCard", id |-> card.id,
                                               rec |-> card])
              /\ cs_lastCall' = [op |-> "addCard", ids |-> {card.id}]
        /\ cs_nextId' = cs_nextId + 1
        /\ cs_calls' = cs_calls + 1
        /\ UNCHANGED <<cs_error, cs_inflight, cs_db, cs_saves, cs_faults,
                       cs_lastFired, cs_onlyAddUpdate, cs_watch>>
        /\ UNCHANGED storeFrame

\* updateCard(cardId, updates) for a card in memory
StoreUpdateCard ==
    \E k \in 1..Len(cs_cards), updates \in Updates :
        /\ cs_calls < MaxStoreCalls
        /\ LET cardId == cs_cards[k].id
               updatedCards == storeUpdateCards(cs_cards, cardId, updates, Now)
               updatedCard == FindById(updatedCards, cardId)
           IN /\ cs_cards' = updatedCards
              /\ IF updatedCard # Undefined
                 THEN /\ SetDebounce(debouncedPersist(Debounce, updatedCard))
                      /\ cs_burst' = Append(cs_burst,
                            [op |-> "updateCard", id |-> cardId, rec |-> updatedCard,
                             before |-> cs_cards[k], updates |-> updates, at |-> Now])
                 ELSE UNCHANGED <<cs_timeoutId, cs_timers, cs_nextTimer, cs_burst>>
              /\ cs_lastCall' = [op |-> "updateCard", ids |-> {cardId}]
        /\ cs_calls' = cs_calls + 1
        /\ UNCHANGED <<cs_error, cs_inflight, cs_db, cs_saves, cs_nextId, cs_faults,
                       cs_lastFired, cs_onlyAddUpdate, cs_watch>>
        /\ UNCHANGED storeFrame

\* batchUpdateCards(cardUpdates) with updates for cards in memory
StoreBatchUpdateCards ==
    \E ids \in (SUBSET {cs_cards[k].id : k \in 1..Len(cs_cards)}) \ {{}} :
      \E cardUpdates \in [ids -> Updates] :
        /\ cs_calls < MaxStoreCalls
        /\ LET persisted == BatchPersisted(cs_cards, cardUpdates, Now, 1)
           IN /\ cs_cards' = storeBatchUpdateCards(cs_cards, cardUpdates, Now)
              /\ SetDebounce(PersistAll(Debounce, persisted))
              /\ cs_burst' = cs_burst \o
                    [k \in 1..Len(persisted) |->
                        [op |-> "batchUpdateCards", id |-> persisted[k].id,
                         rec |-> persisted[k]]]
        /\ cs_lastCall' = [op |-> "batchUpdateCards", ids |-> ids]
        /\ cs_onlyAddUpdate' = FALSE
        /\ cs_calls' = cs_calls + 1
        /\ UNCHANGED <<cs_error, cs_inflight, cs_db, cs_saves, cs_nextId, cs_faults,
                       cs_lastFired, cs_watch>>
        /\ UNCHANGED storeFrame

\* deleteCard(cardId) up to its await: the storage delete is issued
StoreDeleteCard ==
    \E k \in 1..Len(cs_cards) :
        /\ cs_calls < MaxStoreCalls
        /\ cs_inflight' = Append(cs_inflight,
              [kind |-> "delete", id |-> cs_cards[k].id,
               timer |-> PendingTimerOf(cs_cards[k].id)])
        /\ cs_lastCall' = [op |-> "deleteCard", ids |-> {cs_cards[k].id}]
        /\ cs_onlyAddUpdate' = FALSE
        /\ cs_calls' = cs_calls + 1
        /\ UNCHANGED <<cs_cards, cs_error, cs_timeoutId, cs_timers, cs_nextTimer,
                       cs_db, cs_saves, cs_nextId, cs_faults, cs_burst,
                       cs_lastFired, cs_watch>>
        /\ UNCHANGED storeFrame

\* a timer set by debouncedPersist fires: storageService.save is issued with
\* the record the timer was set with
StoreTimerFires ==
    \E t \in cs_timers :
        /\ cs_timers' = cs_timers \ {t}
        /\ cs_inflight' = Append(cs_inflight,
              [kind |-> "save", data |-> t.data, timer |-> t.id])
        /\ cs_saves' = Append(cs_saves, t.data)
        /\ cs_lastFired' = [timer |-> t.id, burst |-> cs_burst, rec |-> t.data,
                            savesBefore |-> Len(cs_saves)]
        /\ cs_burst' = <<>>
        /\ UNCHANGED <<cs_cards, cs_error, cs_timeoutId, cs_nextTimer, cs_db,
                       cs_calls, cs_nextId, cs_faults, cs_lastCall,
                       cs_onlyAddUpdate, cs_watch>>
        /\ UNCHANGED storeFrame

\* the oldest storage request completes.  The adapter catches a failure and
\* resolves to false, which neither the timer callback nor deleteCard reads:
\* deleteCard goes on to remove the card from memory either way.
StoreStorageCompletes ==
    \E ok \in StoreOutcomes :
        /\ cs_inflight # <<>>
        /\ LET req == Head(cs_inflight)
           IN /\ cs_db' = IF ~ok THEN cs_db
                          ELSE IF req.kind = "save" THEN DbPut(cs_db, req.data)
                          ELSE DbDelete(cs_db, req.id)
              /\ cs_cards' = IF req.kind = "delete"
                             THEN SelectSeq(cs_cards, LAMBDA c : c.id # req.id)
                             ELSE cs_cards
              /\ cs_watch' = IF /\ req.kind = "delete" /\ ok /\ req.timer # 0
                                /\ \E t \in cs_timers : t.id = req.timer
                             THEN cs_watch \cup {[id |-> req.id, timer |-> req.timer]}
                             ELSE cs_watch
        /\ cs_inflight' = Tail(cs_inflight)
        /\ cs_faults' = IF ok THEN cs_faults ELSE cs_faults + 1
        /\ UNCHANGED <<cs_error, cs_timeoutId, cs_timers, cs_nextTimer, cs_saves,
                       cs_calls, cs_nextId, cs_burst, cs_lastFired, cs_lastCall,
                       cs_onlyAddUpdate>>
        /\ UNCHANGED storeFrame

\* a message a caller may hand to setError
StoreErrors == {"boom"}

\* setError(error): set({ error }), with a message or null
StoreSetError ==
    \E error \in StoreErrors \cup {"null"} :
        /\ cs_error' = error
        /\ UNCHANGED <<cs_cards, cs_timeoutId, cs_timers, cs_nextTimer,
                       cs_inflight, cs_db, cs_saves, cs_calls, cs_nextId,
                       cs_faults, cs_burst, cs_lastFired, cs_lastCall,
                       cs_onlyAddUpdate, cs_watch>>
        /\ UNCHANGED storeFrame

\* clearError(): set({ error: null })
StoreClearError ==
    /\ cs_error' = "null"
    /\ UNCHANGED <<cs_cards, cs_timeoutId, cs_timers, cs_nextTimer,
                   cs_inflight, cs_db, cs_saves, cs_calls, cs_nextId,
                   cs_faults, cs_burst, cs_lastFired, cs_lastCall,
                   cs_onlyAddUpdate, cs_watch>>
    /\ UNCHANGED storeFrame

StoreNext ==
    \/ StoreSetError
    \/ StoreClearError
    \/ StoreAddCard
    \/ StoreUpdateCard
    \/ StoreBatchUpdateCards
    \/ StoreDeleteCard
    \/ StoreTimerFires
    \/ StoreStorageCompletes

SpecCardStore == StoreInit /\ [][StoreNext]_vars

\* C5: two updateCard calls for the same card within one debounce window,
\* nothing else scheduled in it, lead to exactly one save, of the record that
\* merges the first and then the second update into the card.
C5_DebounceCoalesces ==
    LET b == cs_lastFired.burst
    IN (/\ cs_lastFired.timer # 0
        /\ cs_burst = <<>>
        /\ Len(b) = 2
        /\ b[1].op = "updateCard" /\ b[2].op = "updateCard"
        /\ b[1].id = b[2].id)
        => /\ cs_timers = {}
           /\ Len(cs_saves) = cs_lastFired.savesBefore + 1
           /\ cs_saves[Len(cs_saves)] =
                 Merge(Merge(Merge(Merge(b[1].before, b[1].updates),
                                   [updatedAt |-> b[1].at]),
                             b[2].updates),
                       [updatedAt |-> b[2].at])
           /\ FindById(cs_cards, b[1].id) \in {Undefined, cs_saves[Len(cs_saves)]}

\* two different updates of one card were coalesced into one completed save
C5_Witness ==
    LET b == cs_lastFired.burst
    IN /\ cs_lastFired.timer # 0
       /\ cs_burst = <<>>
       /\ Len(b) = 2
       /\ b[1].op = "updateCard" /\ b[2].op = "updateCard"
       /\ b[1].id = b[2].id
       /\ b[1].updates # b[2].updates
       /\ Quiescent
       /\ b[1].id \in DOMAIN cs_db
       /\ cs_db[b[1].id] = FindById(cs_cards, b[1].id)
       /\ cs_db[b[1].id].updatedAt = b[2].at

\* C6: after addCard/updateCard calls, once no timer is pending and every
\* write has completed successfully, every card in memory has an equal
\* record in the durable 'cards' table.
C6_DurableCatchesUp ==
    (cs_onlyAddUpdate /\ Quiescent /\ cs_faults = 0)
        => \A k \in 1..Len(cs_cards) :
              /\ cs_cards[k].id \in DOMAIN cs_db
              /\ cs_db[cs_cards[k].id] = cs_cards[k]

\* C7: after batchUpdateCards for k >= 2 cards and no further call, once the
\* delay has elapsed and the writes have completed, the durable table holds
\* the updated value of each of the k cards.
C7_BatchPersistsEach ==
    (/\ cs_lastCall.op = "batchUpdateCards"
     /\ Cardinality(cs_lastCall.ids) >= 2
     /\ Quiescent /\ cs_faults = 0)
        => \A id \in cs_lastCall.ids :
              /\ id \in DOMAIN cs_db
              /\ cs_db[id] = FindById(cs_cards, id)

\* C8: a delete of X that completed while a save of X was scheduled is not
\* undone: once that timer has fired and every write has completed, the
\* durable table holds no record with id X.
C8_NoResurrection ==
    \A w \in cs_watch : Quiescent => w.id \notin DOMAIN cs_db

\* C11: when the storage delete issued by deleteCard signals failure, the
\* in-memory cards are left as they were (the card is still present) and the
\* error slot is set.
C11_FailedDeleteKeepsCard ==
    [][(/\ cs_inflight # <<>>
        /\ Head(cs_inflight).kind = "delete"
        /\ cs_inflight' = Tail(cs_inflight)
        /\ cs_faults' = cs_faults + 1)
          => (/\ cs_cards' = cs_cards
              /\ cs_error' # "null")]_vars

\* C12: when the storage save issued by the debounced persist signals
\* failure, the error slot becomes a non-null message.
C12_FailedSaveSetsError ==
    [][(/\ cs_inflight # <<>>
        /\ Head(cs_inflight).kind = "save"
        /\ cs_inflight' = Tail(cs_inflight)
        /\ cs_faults' = cs_faults + 1)
          => cs_error' # "null"]_vars

\* C28: when a debounce timer fires, the record handed to storageService.save
\* is the in-memory record with that id at that moment.
C28_TimerWritesCurrentRecord ==
    [][(Len(cs_saves') = Len(cs_saves) + 1)
          => FindById(cs_cards, cs_saves'[Len(cs_saves')].id)
                = cs_saves'[Len(cs_saves')]]_vars

(***************************************************************************)
(* StorageService (services/storage/StorageService.js) over a              *)
(* LocalStorageAdapter (adapters/LocalStorageAdapter.js), one collection.  *)
(* A call runs synchronously up to its next await; the continuation of an  *)
(* await on a settled promise is a microtask, and microtasks run in the    *)
(* order in which they were queued.                                        *)
(***************************************************************************)
Tasks == 1..NumTasks
RecIds == {"a", "b"}
RecVals == {"v1", "v2"}
StgRecords == [id : RecIds, v : RecVals]

\* The store object holds each record under its id.  A JavaScript object
\* lists its string keys in the order they were first set, so the object is
\* the sequence of its records in that order; the text JSON.stringify makes
\* of it is the sequence of its "key": value entries.

\* localStorage.getItem of a key that was never set gives null
NoItem == <<<<"null", Null>>>>

\* JSON.stringify of the store object: its entries in key order
JSONStringify(store) == [i \in 1..Len(store) |-> <<store[i].id, store[i]>>]

\* JSON.parse of such a text: the keys in the order of the text
JSONParse(text) == [i \in 1..Len(text) |-> text[i][2]]

\* LocalStorageAdapter.getStoreData: `data ? JSON.parse(data) : {}`
getStoreData(blob) == IF blob = NoItem THEN <<>> ELSE JSONParse(blob)

\* getStoreData with its catch: a getItem or JSON.parse that throws is logged
\* and the empty object is returned
getStoreDataOr(blob, ok) == IF ok THEN getStoreData(blob) ELSE <<>>

\* `id in store`
StoreHas(store, id) == \E k \in 1..Len(store) : store[k].id = id

StorePut_KeepExisting(store, data) ==
    IF StoreHas(store, data.id) THEN store ELSE Append(store, data)

\* `store[data.id] = data`: an existing key keeps its place, a new one is
\* added at the end
StorePut(store, data) ==
    IF StoreHas(store, data.id)
    THEN [k \in 1..Len(store) |-> IF store[k].id = data.id THEN data ELSE store[k]]
    ELSE Append(store, data)

\* `delete store[id]`
StoreRemove(store, id) == SelectSeq(store, LAMBDA r : r.id # id)

\* `store[id] || null`
StoreGet(store, id) ==
    IF StoreHas(store, id)
    THEN store[CHOOSE k \in 1..Len(store) : store[k].id = id]
    ELSE Null

\* the records of a store object by id, whatever their order
StoreTable(store) ==
    [id \in {store[k].id : k \in 1..Len(store)} |-> StoreGet(store, id)]

IdleTask == [pc |-> "idle"]

StgCalls ==
    {[op |-> "save", via |-> w, arg |-> r] : w \in {"service", "adapter"}, r \in StgRecords}
    \cup {[op |-> o, via |-> w, arg |-> i] :
            o \in {"get", "delete"}, w \in {"service", "adapter"}, i \in RecIds}
    \cup {[op |-> "init", via |-> "service", arg |-> "none"]}

StgOutcomes == IF st_faults < MaxStorageFaults THEN {TRUE, FALSE} ELSE {TRUE}

InProgress(t) == st_task[t].pc \notin {"idle", "done"}

StgInit ==
    /\ st_blob = NoItem
    /\ st_adInit = FALSE
    /\ st_svcInit = FALSE
    /\ st_initCalls = 0
    /\ st_task = [t \in Tasks |-> IdleTask]
    /\ st_mq = <<>>
    /\ st_calls = <<>>
    /\ st_overlap = FALSE
    /\ st_faults = 0
    /\ StgFrameIdle

\* bookkeeping common to every call that starts
StgBegin(t, c) ==
    /\ ~InProgress(t)
    /\ Len(st_calls) < MaxStorageCalls
    /\ st_calls' = Append(st_calls, c)
    /\ st_overlap' = (st_overlap \/ \E u \in Tasks : InProgress(u))

\* a StorageService method is called while the service is initialized:
\* init() returns true at once; every other method awaits ensureInitialized()
StgServiceCall ==
    \E t \in Tasks, c \in StgCalls :
        /\ c.via = "service"
        /\ st_svcInit
        /\ StgBegin(t, c)
        /\ IF c.op = "init"
           THEN /\ st_task' = [st_task EXCEPT ![t] = [pc |-> "done", call |-> c, res |-> TRUE]]
                /\ UNCHANGED st_mq
           ELSE /\ st_task' = [st_task EXCEPT ![t] = [pc |-> "svc_wait", call |-> c]]
                /\ st_mq' = Append(st_mq, t)
        /\ UNCHANGED <<st_blob, st_adInit, st_svcInit, st_initCalls, st_faults>>
        /\ UNCHANGED stgFrame

\* a StorageService method is called while service.initialized is false:
\* init() (directly, or from ensureInitialized) invokes adapter.init(), which
\* probes localStorage, and awaits its result
StgServiceCallInit ==
    \E t \in Tasks, c \in StgCalls, ok \in StgOutcomes :
        /\ c.via = "service"
        /\ ~st_svcInit
        /\ StgBegin(t, c)
        /\ st_initCalls' = st_initCalls + 1
        /\ st_adInit' = (st_adInit \/ ok)
        /\ st_faults' = IF ok THEN st_faults ELSE st_faults + 1
        /\ st_task' = [st_task EXCEPT ![t] = [pc |-> "init_wait", call |-> c, ir |-> ok]]
        /\ st_mq' = Append(st_mq, t)
        /\ UNCHANGED <<st_blob, st_svcInit>>
        /\ UNCHANGED stgFrame

\* a LocalStorageAdapter method is called directly: it reads the blob in
\* getStoreData, where a read that throws gives the empty object, and awaits
StgAdapterCall ==
    \E t \in Tasks, c \in StgCalls, rok \in StgOutcomes :
        /\ c.via = "adapter"
        /\ StgBegin(t, c)
        /\ st_task' = [st_task EXCEPT ![t] =
                          [pc |-> "ad_wait", call |-> c,
                           store |-> getStoreDataOr(st_blob, rok)]]
        /\ st_mq' = Append(st_mq, t)
        /\ st_faults' = IF rok THEN st_faults ELSE st_faults + 1
        /\ UNCHANGED <<st_blob, st_adInit, st_svcInit, st_initCalls>>
        /\ UNCHANGED stgFrame

\* StorageService.init resumes: `this.initialized = await this.adapter.init()`
StgInitResumes ==
    /\ st_mq # <<>>
    /\ LET t == Head(st_mq)
           me == st_task[t]
       IN /\ me.pc = "init_wait"
          /\ st_svcInit' = me.ir
          /\ IF me.call.op = "init"
             THEN /\ st_task' = [st_task EXCEPT ![t] =
                                    [pc |-> "done", call |-> me.call, res |-> me.ir]]
                  /\ st_mq' = Tail(st_mq)
             ELSE /\ st_task' = [st_task EXCEPT ![t] =
                                    [pc |-> "ensure_wait", call |-> me.call]]
                  /\ st_mq' = Append(Tail(st_mq), t)
    /\ UNCHANGED <<st_blob, st_adInit, st_initCalls, st_calls, st_overlap, st_faults>>
    /\ UNCHANGED stgFrame

\* ensureInitialized resumes after `await this.init()` and returns
StgEnsureResumes ==
    /\ st_mq # <<>>
    /\ LET t == Head(st_mq)
           me == st_task[t]
       IN /\ me.pc = "ensure_wait"
          /\ st_task' = [st_task EXCEPT ![t] = [pc |-> "svc_wait", call |-> me.call]]
          /\ st_mq' = Append(Tail(st_mq), t)
    /\ UNCHANGED <<st_blob, st_adInit, st_svcInit, st_initCalls, st_calls,
                   st_overlap, st_faults>>
    /\ UNCHANGED stgFrame

\* the service method resumes after `await this.ensureInitialized()` and
\* calls the adapter, which reads the blob in getStoreData, where a read
\* that throws gives the empty object, and awaits
StgServiceResumes ==
    /\ st_mq # <<>>
    /\ LET t == Head(st_mq)
           me == st_task[t]
       IN /\ me.pc = "svc_wait"
          /\ \E rok \in StgOutcomes :
               /\ st_task' = [st_task EXCEPT ![t] =
                                 [pc |-> "ad_wait", call |-> me.call,
                                  store |-> getStoreDataOr(st_blob, rok)]]
               /\ st_faults' = IF rok THEN st_faults ELSE st_faults + 1
          /\ st_mq' = Append(Tail(st_mq), t)
    /\ UNCHANGED <<st_blob, st_adInit, st_svcInit, st_initCalls, st_calls,
                   st_overlap>>
    /\ UNCHANGED stgFrame

\* what LocalStorageAdapter.save / delete write back from their own `store`
AdapterWrite(call, store) ==
    IF call.op = "save" THEN JSONStringify(StorePut(store, call.arg))
    ELSE JSONStringify(StoreRemove(store, call.arg))

\* the adapter method resumes after `await this.getStoreData(storeName)`
StgAdapterResumes ==
    /\ st_mq # <<>>
    /\ LET t == Head(st_mq)
           me == st_task[t]
       IN /\ me.pc = "ad_wait"
          /\ IF me.call.op = "get"
             THEN /\ st_task' = [st_task EXCEPT ![t] =
                        [pc |-> "done", call |-> me.call,
                         res |-> StoreGet(me.store, me.call.arg)]]
                  /\ UNCHANGED <<st_blob, st_faults>>
             ELSE \E ok \in StgOutcomes :
                  /\ st_blob' = IF ok THEN AdapterWrite(me.call, me.store) ELSE st_blob
                  /\ st_faults' = IF ok THEN st_faults ELSE st_faults + 1
                  /\ st_task' = [st_task EXCEPT ![t] =
                        [pc |-> "done", call |-> me.call, res |-> ok]]
          /\ st_mq' = Tail(st_mq)
    /\ UNCHANGED <<st_adInit, st_svcInit, st_initCalls, st_calls, st_overlap>>
    /\ UNCHANGED stgFrame

StgNext ==
    \/ StgServiceCall
    \/ StgServiceCallInit
    \/ StgAdapterCall
    \/ StgInitResumes
    \/ StgEnsureResumes
    \/ StgServiceResumes
    \/ StgAdapterResumes

SpecStorage == StgInit /\ [][StgNext]_vars

\* C9: two saves of records with different ids whose executions overlapped
\* have both completed successfully, no read or write of localStorage having
\* failed: the collection contains both records.
C9_OverlappingSavesKeepBoth ==
    (/\ Len(st_calls) = 2
     /\ st_calls[1].op = "save" /\ st_calls[2].op = "save"
     /\ st_calls[1].arg.id # st_calls[2].arg.id
     /\ st_overlap
     /\ st_faults = 0
     /\ \A t \in Tasks : st_task[t].pc = "done" => st_task[t].res = TRUE
     /\ \A t \in Tasks : ~InProgress(t))
        => \A i \in 1..2 :
              StoreGet(getStoreData(st_blob), st_calls[i].arg.id) = st_calls[i].arg

\* C10: whatever calls are made on the service and however they interleave,
\* the service invokes the adapter's init() at most once.
C10_InitAtMostOnce == st_initCalls <= 1

(***************************************************************************)
(* The adapters called directly, one collection:                           *)
(* LocalStorageAdapter (adapters/LocalStorageAdapter.js) over localStorage *)
(* and IndexedDBAdapter (adapters/IndexedDBAdapter.js) over a Dexie table. *)
(* A browser store operation (getItem, setItem, removeItem, a Dexie table  *)
(* request) either works or throws / rejects.  A LocalStorageAdapter       *)
(* method reads the collection when it is called and writes it when its    *)
(* await resumes; a Dexie request takes effect when it settles.            *)
(***************************************************************************)
AdKinds == {"localStorage", "indexedDB"}

\* the order of the primary keys of a Dexie table
RecIdOrder == <<"a", "b">>

BulkLists ==
    {<<[id |-> "a", v |-> v], [id |-> "b", v |-> v]>> : v \in RecVals}
    \cup {<<[id |-> "a", v |-> "v1"], [id |-> "a", v |-> "v2"]>>}

AdCalls ==
    {[op |-> "save", arg |-> r] : r \in StgRecords}
    \cup {[op |-> o, arg |-> i] : o \in {"get", "delete"}, i \in RecIds}
    \cup {[op |-> "bulkSave", arg |-> l] : l \in BulkLists}
    \cup {[op |-> "getAll", arg |-> "none"], [op |-> "clear", arg |-> "none"]}

\* the collections a run starts from
InitContents ==
    UNION {[ids -> {"v1"}] : ids \in SUBSET RecIds}

ContentsOf(vals) == [k \in DOMAIN vals |-> [id |-> k, v |-> vals[k]]]

\* the orders in which the records of a collection can have been written
StoreOrders(tbl) ==
    {s \in [1..Cardinality(DOMAIN tbl) -> {tbl[k] : k \in DOMAIN tbl}] :
        \A i, j \in DOMAIN s : i # j => s[i] # s[j]}

\* Object.values(store): the values in key order
ObjectValues(store) == [i \in 1..Len(store) |-> store[i]]

\* Table.toArray(): the records in primary key order
toArray(tbl) ==
    LET keys == SelectSeq(RecIdOrder, LAMBDA k : k \in DOMAIN tbl)
    IN [i \in 1..Len(keys) |-> tbl[keys[i]]]

\* items.forEach(item => { store[item.id] = item })
RECURSIVE StorePutAll(_, _)
StorePutAll(store, items) ==
    IF items = <<>> THEN store
    ELSE StorePutAll(StorePut(store, Head(items)), Tail(items))


\* LocalStorageAdapter.save after its await: the blob and the result
lsSave(blob, store, data, ok) ==
    IF ok THEN [blob |-> JSONStringify(StorePut(store, data)), res |-> TRUE]
    ELSE [blob |-> blob, res |-> FALSE]

lsDelete_FalseWhenAbsent(blob, store, id, ok) ==
    IF ok THEN [blob |-> JSONStringify(StoreRemove(store, id)),
                res |-> StoreHas(store, id)]
    ELSE [blob |-> blob, res |-> FALSE]

\* LocalStorageAdapter.delete after its await
lsDelete(blob, store, id, ok) ==
    IF ok THEN [blob |-> JSONStringify(StoreRemove(store, id)), res |-> TRUE]
    ELSE [blob |-> blob, res |-> FALSE]

lsBulkSave_WritePerItem(blob, store, items, ok) ==
    IF ok THEN [blob |-> JSONStringify(StorePutAll(store, items)), res |-> TRUE]
    ELSE [blob |-> JSONStringify(StorePut(store, Head(items))), res |-> FALSE]

\* LocalStorageAdapter.bulkSave after its await
lsBulkSave(blob, store, items, ok) ==
    IF ok THEN [blob |-> JSONStringify(StorePutAll(store, items)), res |-> TRUE]
    ELSE [blob |-> blob, res |-> FALSE]

\* LocalStorageAdapter.clear
lsClear(blob, ok) ==
    IF ok THEN [blob |-> NoItem, res |-> TRUE] ELSE [blob |-> blob, res |-> FALSE]

\* LocalStorageAdapter.get / getAll (no filter) after their await
lsGet(store, id) == StoreGet(store, id)

lsGetAll(store) == ObjectValues(store)

\* IndexedDBAdapter methods once the Dexie request has settled
idbSave(tbl, data, ok) ==
    IF ok THEN [tbl |-> DbPut(tbl, data), res |-> TRUE] ELSE [tbl |-> tbl, res |-> FALSE]

idbGet(tbl, id, ok) ==
    IF ok THEN (IF id \in DOMAIN tbl THEN tbl[id] ELSE Undefined) ELSE Null

idbGetAll(tbl, ok) == IF ok THEN toArray(tbl) ELSE <<>>

idbDelete(tbl, id, ok) ==
    IF ok THEN [tbl |-> DbDelete(tbl, id), res |-> TRUE] ELSE [tbl |-> tbl, res |-> FALSE]

\* bulkPut that rejects may have stored the first n items
idbBulkSave(tbl, items, ok, n) ==
    IF ok THEN [tbl |-> DbPutAll(tbl, items), res |-> TRUE]
    ELSE [tbl |-> DbPutAll(tbl, SubSeq(items, 1, n)), res |-> FALSE]

idbClear(tbl, ok) ==
    IF ok THEN [tbl |-> <<>>, res |-> TRUE] ELSE [tbl |-> tbl, res |-> FALSE]

\* the records in the collection
AdContents ==
    IF ad_kind = "localStorage" THEN StoreTable(getStoreData(ad_blob)) ELSE ad_tbl

AdOutcomes == IF ad_faults < MaxAdapterFaults THEN {TRUE, FALSE} ELSE {TRUE}

AdInProgress(t) == ad_task[t].pc # "idle"

AdInit ==
    /\ ad_kind \in AdKinds
    /\ ad_init0 \in {ContentsOf(v) : v \in InitContents}
    /\ ad_blob \in IF ad_kind = "localStorage" /\ ad_init0 # <<>>
                   THEN {JSONStringify(s) : s \in StoreOrders(ad_init0)}
                   ELSE {NoItem}
    /\ ad_tbl = IF ad_kind = "indexedDB" THEN ad_init0 ELSE <<>>
    /\ ad_task = [t \in Tasks |-> IdleTask]
    /\ ad_mq = <<>>
    /\ ad_calls = <<>>
    /\ ad_log = <<>>
    /\ ad_overlap = FALSE
    /\ ad_faults = 0
    /\ AdFrameIdle

\* bookkeeping common to every call that starts
AdBegin(t, c) ==
    /\ ~AdInProgress(t)
    /\ Len(ad_calls) < MaxAdapterCalls
    /\ ad_calls' = Append(ad_calls, c)
    /\ ad_overlap' = (ad_overlap \/ \E u \in Tasks : AdInProgress(u))
    /\ ad_mq' = Append(ad_mq, t)

\* bookkeeping common to every call that completes: the caller has the
\* result
AdEnd(t, res, fault, before, post) ==
    /\ ad_log' = Append(ad_log,
          [call |-> ad_task[t].call, res |-> res, fault |-> fault,
           before |-> before, post |-> post])
    /\ ad_task' = [ad_task EXCEPT ![t] = IdleTask]
    /\ ad_mq' = Tail(ad_mq)

\* a LocalStorageAdapter method has returned: its promise is resolved and
\* the caller's continuation is queued behind the jobs already waiting
AdSettle(t, res, fault, before, post) ==
    [pc |-> "ret", call |-> ad_task[t].call, res |-> res, fault |-> fault,
     before |-> before, post |-> post]

\* LocalStorageAdapter.save / get / getAll / delete / bulkSave is called:
\* getStoreData reads the collection, the method awaits it
AdLocalCall ==
    \E t \in Tasks, c \in AdCalls, ok \in AdOutcomes :
        /\ ad_kind = "localStorage"
        /\ c.op # "clear"
        /\ AdBegin(t, c)
        /\ ad_task' = [ad_task EXCEPT ![t] =
              [pc |-> "wait", call |-> c, store |-> getStoreDataOr(ad_blob, ok),
               fault |-> ~ok]]
        /\ ad_faults' = IF ok THEN ad_faults ELSE ad_faults + 1
        /\ UNCHANGED <<ad_kind, ad_blob, ad_tbl, ad_init0, ad_log>>
        /\ UNCHANGED adFrame

\* LocalStorageAdapter.clear is called: it has no await, removeItem runs
\* and the method returns at once
AdLocalClear ==
    \E t \in Tasks, c \in AdCalls, ok \in AdOutcomes :
        /\ ad_kind = "localStorage"
        /\ c.op = "clear"
        /\ AdBegin(t, c)
        /\ ad_blob' = lsClear(ad_blob, ok).blob
        /\ ad_task' = [ad_task EXCEPT ![t] =
              [pc |-> "ret", call |-> c, res |-> lsClear(ad_blob, ok).res,
               fault |-> ~ok, before |-> AdContents,
               post |-> StoreTable(getStoreData(lsClear(ad_blob, ok).blob))]]
        /\ ad_faults' = IF ok THEN ad_faults ELSE ad_faults + 1
        /\ UNCHANGED <<ad_kind, ad_tbl, ad_init0, ad_log>>
        /\ UNCHANGED adFrame

\* a LocalStorageAdapter method resumes after its await, runs to its end
\* and returns
AdLocalResumes ==
    /\ ad_kind = "localStorage"
    /\ ad_mq # <<>>
    /\ LET t == Head(ad_mq)
           me == ad_task[t]
           op == me.call.op
       IN /\ me.pc = "wait"
          /\ ad_mq' = Append(Tail(ad_mq), t)
          /\ IF op \in {"save", "delete", "bulkSave"}
             THEN \E ok \in AdOutcomes :
                    LET r == IF op = "save"
                             THEN lsSave(ad_blob, me.store, me.call.arg, ok)
                             ELSE IF op = "delete"
                             THEN lsDelete(ad_blob, me.store, me.call.arg, ok)
                             ELSE lsBulkSave(ad_blob, me.store, me.call.arg, ok)
                    IN /\ ad_blob' = r.blob
                       /\ ad_faults' = IF ok THEN ad_faults ELSE ad_faults + 1
                       /\ ad_task' = [ad_task EXCEPT ![t] =
                             AdSettle(t, r.res, me.fault \/ ~ok, AdContents,
                                      StoreTable(getStoreData(r.blob)))]
             ELSE /\ UNCHANGED <<ad_blob, ad_faults>>
                  /\ ad_task' = [ad_task EXCEPT ![t] =
                        AdSettle(t, IF op = "get" THEN lsGet(me.store, me.call.arg)
                                    ELSE lsGetAll(me.store),
                                 me.fault, AdContents, AdContents)]
    /\ UNCHANGED <<ad_kind, ad_tbl, ad_init0, ad_calls, ad_overlap, ad_log>>
    /\ UNCHANGED adFrame

\* the caller of a LocalStorageAdapter method resumes with its result
AdLocalReturns ==
    /\ ad_kind = "localStorage"
    /\ ad_mq # <<>>
    /\ LET t == Head(ad_mq)
           me == ad_task[t]
       IN /\ me.pc = "ret"
          /\ AdEnd(t, me.res, me.fault, me.before, me.post)
    /\ UNCHANGED <<ad_kind, ad_blob, ad_tbl, ad_init0, ad_calls, ad_overlap,
                   ad_faults>>
    /\ UNCHANGED adFrame

\* an IndexedDBAdapter method is called: it issues its Dexie request and
\* awaits it
AdDexieCall ==
    \E t \in Tasks, c \in AdCalls :
        /\ ad_kind = "indexedDB"
        /\ AdBegin(t, c)
        /\ ad_task' = [ad_task EXCEPT ![t] = [pc |-> "wait", call |-> c]]
        /\ UNCHANGED <<ad_kind, ad_blob, ad_tbl, ad_init0, ad_log, ad_faults>>
        /\ UNCHANGED adFrame

\* the Dexie request settles and the IndexedDBAdapter method returns
AdDexieResumes ==
    /\ ad_kind = "indexedDB"
    /\ ad_mq # <<>>
    /\ LET t == Head(ad_mq)
           me == ad_task[t]
           op == me.call.op
           arg == me.call.arg
       IN \E ok \in AdOutcomes :
            /\ ad_faults' = IF ok THEN ad_faults ELSE ad_faults + 1
            /\ IF op \in {"get", "getAll"}
               THEN /\ UNCHANGED ad_tbl
                    /\ AdEnd(t, IF op = "get" THEN idbGet(ad_tbl, arg, ok)
                                ELSE idbGetAll(ad_tbl, ok),
                             ~ok, ad_tbl, ad_tbl)
               ELSE \E n \in 0..1 :
                    LET r == IF op = "save" THEN idbSave(ad_tbl, arg, ok)
                             ELSE IF op = "delete" THEN idbDelete(ad_tbl, arg, ok)
                             ELSE IF op = "bulkSave" THEN idbBulkSave(ad_tbl, arg, ok, n)
                             ELSE idbClear(ad_tbl, ok)
                    IN /\ ad_tbl' = r.tbl
                       /\ AdEnd(t, r.res, ~ok, ad_tbl, r.tbl)
    /\ UNCHANGED <<ad_kind, ad_blob, ad_init0, ad_calls, ad_overlap>>
    /\ UNCHANGED adFrame

AdNext ==
    \/ AdLocalCall
    \/ AdLocalClear
    \/ AdLocalResumes
    \/ AdLocalReturns
    \/ AdDexieCall
    \/ AdDexieResumes

SpecAdapter == AdInit /\ [][AdNext]_vars

\* C13: a call during which a browser store operation failed resolves to
\* false (save, delete, bulkSave, clear), null (get) or the empty sequence
\* (getAll), never to anything else; and a LocalStorageAdapter save, delete
\* or bulkSave that resolved to false has left the collection as it was.
C13_FailuresSurfaceAsFalsy ==
    \A i \in 1..Len(ad_log) :
        LET e == ad_log[i]
        IN /\ e.fault =>
                 /\ e.call.op \in {"save", "delete", "bulkSave", "clear"} => e.res = FALSE
                 /\ e.call.op = "get" => e.res = Null
                 /\ e.call.op = "getAll" => e.res = <<>>
           /\ (/\ ad_kind = "localStorage"
               /\ e.call.op \in {"save", "delete", "bulkSave"}
               /\ e.res = FALSE)
                 => e.post = e.before

\* the calls of a run were made one after the other and no browser store
\* operation failed during calls i and i + 1
AdPairInOrder(i) ==
    /\ ~ad_overlap
    /\ i + 1 <= Len(ad_log)
    /\ ~ad_log[i].fault
    /\ ~ad_log[i + 1].fault

\* C14: after a successful save(r), a get(r.id) that follows returns a
\* record equal to r and a getAll that follows lists exactly one record
\* with that id, r itself, whether or not the id was stored before.
C14_SaveThenRead ==
    \A i \in 1..Len(ad_log) :
        (/\ ad_log[i].call.op = "save"
         /\ ad_log[i].res = TRUE
         /\ ~ad_overlap
         /\ i + 1 <= Len(ad_log)
         /\ ~ad_log[i + 1].fault)
            => LET r == ad_log[i].call.arg
                   n == ad_log[i + 1]
               IN /\ (n.call.op = "get" /\ n.call.arg = r.id) => n.res = r
                  /\ n.call.op = "getAll" =>
                        /\ Cardinality({k \in 1..Len(n.res) : n.res[k].id = r.id}) = 1
                        /\ \E k \in 1..Len(n.res) : n.res[k] = r

\* a record that replaced a stored one with the same id is read back
C14_Witness ==
    /\ Len(ad_log) = 2
    /\ ~ad_overlap
    /\ ad_faults = 0
    /\ ad_log[1].call.op = "save"
    /\ ad_log[1].call.arg.id \in DOMAIN ad_init0
    /\ ad_init0[ad_log[1].call.arg.id] # ad_log[1].call.arg
    /\ ad_log[1].res = TRUE
    /\ ad_log[2].call = [op |-> "get", arg |-> ad_log[1].call.arg.id]
    /\ ad_log[2].res = ad_log[1].call.arg

\* C15: delete(id) reports success when no record with that id is stored,
\* and a second delete(id) right after the first reports success and leaves
\* the collection as the first left it.
C15_DeleteIdempotent ==
    \A i \in 1..Len(ad_log) :
        LET e == ad_log[i]
        IN /\ (/\ e.call.op = "delete" /\ ~e.fault /\ ~ad_overlap
               /\ e.call.arg \notin DOMAIN e.before)
                 => (e.res = TRUE /\ e.post = e.before)
           /\ (/\ AdPairInOrder(i)
               /\ e.call.op = "delete"
               /\ ad_log[i + 1].call = e.call)
                 => /\ e.res = TRUE
                    /\ ad_log[i + 1].res = TRUE
                    /\ ad_log[i + 1].post = e.post

\* a stored record deleted twice
C15_Witness ==
    /\ Len(ad_log) = 2
    /\ AdPairInOrder(1)
    /\ ad_log[1].call.op = "delete"
    /\ ad_log[1].call.arg \in DOMAIN ad_init0
    /\ ad_log[2].call = ad_log[1].call
    /\ ad_log[2].res = TRUE
    /\ ad_log[2].post = ad_log[1].post
    /\ ad_log[1].call.arg \notin DOMAIN AdContents

\* what bulkSave(items) upserts, by id
Upserts(items) == StoreTable(StorePutAll(<<>>, items))

\* the ids whose upsert by bulkSave(items) a collection shows
Visible(items, contents) ==
    {k \in DOMAIN Upserts(items) : k \in DOMAIN contents /\ contents[k] = Upserts(items)[k]}

\* as Visible, of the records a getAll returned
VisibleIn(items, list) ==
    {k \in DOMAIN Upserts(items) : \E j \in 1..Len(list) : list[j] = Upserts(items)[k]}

\* the calls started so far are one LocalStorageAdapter.bulkSave, of records
\* the collection did not hold at the start, and readers
AdOneBulkAndReaders ==
    /\ ad_kind = "localStorage"
    /\ Cardinality({i \in 1..Len(ad_calls) : ad_calls[i].op = "bulkSave"}) = 1
    /\ \A i \in 1..Len(ad_calls) : ad_calls[i].op \in {"bulkSave", "get", "getAll"}
    /\ \A i \in 1..Len(ad_calls) :
          ad_calls[i].op = "bulkSave" => Visible(ad_calls[i].arg, ad_init0) = {}

\* C16: while LocalStorageAdapter.bulkSave(items) runs next to readers, the
\* collection and every getAll result show none or all of the items'
\* upserts; if its write failed they show none.
C16_BulkSaveAllOrNothing ==
    AdOneBulkAndReaders =>
        \A b \in 1..Len(ad_calls) :
            ad_calls[b].op = "bulkSave" =>
                LET items == ad_calls[b].arg
                    all == DOMAIN Upserts(items)
                IN /\ Visible(items, AdContents) \in {{}, all}
                   /\ \A i \in 1..Len(ad_log) :
                         /\ ad_log[i].call.op = "getAll"
                               => VisibleIn(items, ad_log[i].res) \in {{}, all}
                         /\ (ad_log[i].call.op = "bulkSave" /\ ad_log[i].res = FALSE)
                               => Visible(items, AdContents) = {}

\* a getAll called while a bulkSave of two records was waiting to write saw
\* neither; the collection holds both
C16_Witness ==
    /\ AdOneBulkAndReaders
    /\ ad_overlap
    /\ Len(ad_log) = 2
    /\ ad_log[1].call.op = "bulkSave"
    /\ ad_log[1].res = TRUE
    /\ Cardinality(Visible(ad_log[1].call.arg, AdContents)) = 2
    /\ ad_log[2].call.op = "getAll"
    /\ VisibleIn(ad_log[1].call.arg, ad_log[2].res) = {}

(***************************************************************************)
(* DragDropService (services/dragDrop/DragDropService.js): the drag state  *)
(* and its subscribers.  A listener is a callback that may throw; what it  *)
(* does besides is outside the service.                                    *)
(***************************************************************************)
DragItems == {[id |-> 1], [id |-> 2]}
DragTypes == {"CARD", "COLUMN"}
DropIndexes == 0..1
Listeners == {"L1", "L2"}

\* the dragState the constructor and endDrag set
IdleDragState ==
    [isDragging |-> FALSE, draggedItem |-> Null, dragType |-> Null, sourceId |-> Null]

notifyListeners_NoCatch(listeners, event, data, throwers) ==
    LET stop == IF \E k \in 1..Len(listeners) : listeners[k] \in throwers
                THEN CHOOSE k \in 1..Len(listeners) :
                        /\ listeners[k] \in throwers
                        /\ \A j \in 1..(k - 1) : listeners[j] \notin throwers
                ELSE Len(listeners)
    IN [k \in 1..stop |->
          [listener |-> listeners[k], event |-> event, data |-> data,
           threw |-> listeners[k] \in throwers]]

\* notifyListeners(event, data): the listener calls it makes, in order; a
\* listener that throws is caught and the next one is called
notifyListeners(listeners, event, data, throwers) ==
    [k \in 1..Len(listeners) |->
        [listener |-> listeners[k], event |-> event, data |-> data,
         threw |-> listeners[k] \in throwers]]

\* startDrag(item, type, sourceId): the new dragState
startDrag(item, type, sourceId) ==
    [isDragging |-> TRUE, draggedItem |-> item, dragType |-> type, sourceId |-> sourceId]

endDrag_OnlyFlag(dragState) ==
    [dragState |-> Merge(dragState, [isDragging |-> FALSE]),
     previousState |-> dragState]

\* endDrag(): the new dragState and the copy of the previous one
endDrag(dragState) ==
    [dragState |-> IdleDragState, previousState |-> Merge(dragState, [f \in {} |-> 0])]

handleDrop_NoGuard(dragState, destinationId, destinationIndex) ==
    [item |-> dragState.draggedItem, type |-> dragState.dragType,
     sourceId |-> dragState.sourceId, destinationId |-> destinationId,
     destinationIndex |-> destinationIndex]

\* handleDrop(destinationId, destinationIndex): what it returns
handleDrop(dragState, destinationId, destinationIndex) ==
    IF ~dragState.isDragging THEN Null
    ELSE [item |-> dragState.draggedItem, type |-> dragState.dragType,
          sourceId |-> dragState.sourceId, destinationId |-> destinationId,
          destinationIndex |-> destinationIndex]

\* the unsubscribe function subscribe returns
unsubscribe(listeners, listener) == SelectSeq(listeners, LAMBDA l : l # listener)

\* the listeners a caller may make throw
Throwers == SUBSET {dd_listeners[k] : k \in 1..Len(dd_listeners)}

DdInit ==
    /\ dd_dragState = IdleDragState
    /\ dd_listeners = <<>>
    /\ dd_handles = {}
    /\ dd_notified = <<>>
    /\ dd_last = [op |-> "none", start |-> Null]
    /\ dd_ncalls = 0
    /\ DdFrameIdle

\* bookkeeping common to every method call
DdCalled(rec) ==
    /\ dd_ncalls < MaxDragCalls
    /\ dd_ncalls' = dd_ncalls + 1
    /\ dd_last' = Merge([pre |-> dd_dragState, prev |-> dd_last.op,
                         prevPre |-> IF dd_last.op = "none" THEN Null ELSE dd_last.pre,
                         start |-> dd_last.start], rec)

DragSubscribe ==
    \E l \in Listeners :
        /\ Len(dd_listeners) < MaxListeners
        /\ dd_listeners' = Append(dd_listeners, l)
        /\ dd_handles' = dd_handles \cup {l}
        /\ dd_notified' = <<>>
        /\ DdCalled([op |-> "subscribe", args |-> <<l>>])
        /\ UNCHANGED dd_dragState
        /\ UNCHANGED ddFrame

DragUnsubscribe ==
    \E l \in dd_handles :
        /\ dd_listeners' = unsubscribe(dd_listeners, l)
        /\ dd_notified' = <<>>
        /\ DdCalled([op |-> "unsubscribe", args |-> <<l>>])
        /\ UNCHANGED <<dd_dragState, dd_handles>>
        /\ UNCHANGED ddFrame

DragStartDrag ==
    \E item \in DragItems, type \in DragTypes, sourceId \in ColIds,
       throwers \in Throwers :
        /\ dd_dragState' = startDrag(item, type, sourceId)
        /\ dd_notified' = notifyListeners(dd_listeners, "dragStart",
                                          startDrag(item, type, sourceId), throwers)
        /\ DdCalled([op |-> "startDrag", args |-> <<item, type, sourceId>>,
                     start |-> [item |-> item, type |-> type, sourceId |-> sourceId]])
        /\ UNCHANGED <<dd_listeners, dd_handles>>
        /\ UNCHANGED ddFrame

DragEndDrag ==
    \E throwers \in Throwers :
        LET e == endDrag(dd_dragState)
        IN /\ dd_dragState' = e.dragState
           /\ dd_notified' = notifyListeners(dd_listeners, "dragEnd",
                                             e.previousState, throwers)
           /\ DdCalled([op |-> "endDrag", args |-> <<>>])
           /\ UNCHANGED <<dd_listeners, dd_handles>>
           /\ UNCHANGED ddFrame

DragHandleDrop ==
    \E destinationId \in ColIds, destinationIndex \in DropIndexes,
       throwers \in Throwers :
        LET result == handleDrop(dd_dragState, destinationId, destinationIndex)
        IN /\ dd_notified' = IF result = Null THEN <<>>
                             ELSE notifyListeners(dd_listeners, "drop", result, throwers)
           /\ DdCalled([op |-> "handleDrop",
                        args |-> <<destinationId, destinationIndex>>,
                        ret |-> result])
           /\ UNCHANGED <<dd_dragState, dd_listeners, dd_handles>>
           /\ UNCHANGED ddFrame

DdNext ==
    \/ DragSubscribe
    \/ DragUnsubscribe
    \/ DragStartDrag
    \/ DragEndDrag
    \/ DragHandleDrop

SpecDragDrop == DdInit /\ [][DdNext]_vars

\* C17: handleDrop called while the coordinator is idle returns null, calls
\* no subscriber and leaves the drag state as it was.
C17_IdleDropIsNoop ==
    (dd_last.op = "handleDrop" /\ ~dd_last.pre.isDragging)
        => /\ dd_last.ret = Null
           /\ dd_notified = <<>>
           /\ dd_dragState = dd_last.pre

\* a drop without a drag, with a subscriber listening
C17_Witness ==
    /\ dd_last.op = "handleDrop"
    /\ ~dd_last.pre.isDragging
    /\ dd_last.ret = Null
    /\ Len(dd_listeners) >= 1

\* C18: handleDrop(destinationId, destinationIndex) called while dragging
\* returns the item, type and sourceId of the most recent startDrag together
\* with its two arguments, calls every subscription once, in order, with
\* 'drop' and that descriptor, and leaves the drag state as it was.
C18_DropDescribesMove ==
    (dd_last.op = "handleDrop" /\ dd_last.pre.isDragging)
        => /\ dd_last.ret = [item |-> dd_last.start.item,
                             type |-> dd_last.start.type,
                             sourceId |-> dd_last.start.sourceId,
                             destinationId |-> dd_last.args[1],
                             destinationIndex |-> dd_last.args[2]]
           /\ Len(dd_notified) = Len(dd_listeners)
           /\ \A k \in 1..Len(dd_listeners) :
                 /\ dd_notified[k].listener = dd_listeners[k]
                 /\ dd_notified[k].event = "drop"
                 /\ dd_notified[k].data = dd_last.ret
           /\ dd_dragState = dd_last.pre
           /\ dd_dragState.isDragging

\* a drop onto the other column with two subscribers, the first of which
\* throws
C18_Witness ==
    /\ dd_last.op = "handleDrop"
    /\ dd_last.pre.isDragging
    /\ dd_last.ret # Null
    /\ dd_last.ret.destinationId # dd_last.ret.sourceId
    /\ dd_listeners = <<"L1", "L2">>
    /\ Len(dd_notified) = 2
    /\ dd_notified[1].threw

\* C19: after endDrag, from whatever state it was called in, the coordinator
\* is idle with draggedItem, dragType and sourceId null, and a handleDrop
\* that follows returns null.
C19_EndDragResets ==
    /\ dd_last.op = "endDrag"
          => /\ dd_dragState = IdleDragState
             /\ \A d \in ColIds, i \in DropIndexes : handleDrop(dd_dragState, d, i) = Null
    /\ (dd_last.op = "handleDrop" /\ dd_last.prev = "endDrag")
          => dd_last.ret = Null

\* startDrag, endDrag, handleDrop: the drop after the end of a drag returns
\* null
C19_Witness ==
    /\ dd_last.op = "handleDrop"
    /\ dd_last.prev = "endDrag"
    /\ dd_last.prevPre # Null
    /\ dd_last.prevPre.isDragging
    /\ dd_last.ret = Null
    /\ dd_dragState = IdleDragState

\* C39: in every state reached by startDrag, handleDrop and endDrag calls
\* (with subscribers coming and going), whenever isDragging is false the
\* fields draggedItem, dragType and sourceId are all null.
C39_IdleStateIsNull ==
    ~dd_dragState.isDragging
        => /\ dd_dragState.draggedItem = Null
           /\ dd_dragState.dragType = Null
           /\ dd_dragState.sourceId = Null

\* a drag was started, dropped and ended: the state that held the item is
\* idle again with nothing captured
C39_Witness ==
    /\ dd_last.op = "endDrag"
    /\ dd_last.prev = "handleDrop"
    /\ dd_last.pre.isDragging
    /\ dd_last.pre.draggedItem = [id |-> 2]
    /\ ~dd_dragState.isDragging
    /\ dd_dragState.draggedItem = Null

\* C40: calling the function subscribe returned removes the one
\* subscription it was returned for; every other subscription, a second
\* subscription of the same listener function included, stays subscribed
\* and is called with later events.
C40_UnsubscribeRemovesOne ==
    [][(dd_last'.op = "unsubscribe" /\ dd_ncalls' = dd_ncalls + 1)
          => /\ Len(dd_listeners') >= Len(dd_listeners) - 1
             /\ \A l \in Listeners :
                    l # dd_last'.args[1]
                        => SelectSeq(dd_listeners', LAMBDA x : x = l)
                              = SelectSeq(dd_listeners, LAMBDA x : x = l)]_vars


(***************************************************************************)
(* Boards, their columns and the columns' cards: the handlers of the board *)
(* page (pages/BoardPage.js over the reducer store, and its variant over   *)
(* the Zustand stores) and of the sidebar (components/Sidebar.js), over    *)
(* the in-memory collections and the IndexedDB tables of database          *)
(* 'kanban-app-db'.  A handler runs to its first await in the task that    *)
(* calls it and resumes in the task in which the IndexedDB requests it     *)
(* awaits have settled; between the two any other handler may be called,   *)
(* may resume, and a debounce timer may fire.  Requests on one table       *)
(* settle in the order they were issued, each with its own outcome;        *)
(* requests on different tables settle in any order.  The handlers' own    *)
(* requests go through utils/storage, whose database the application     *)
(* opens when it starts; the stores' requests go through the store's own   *)
(* StorageService, which opens its database on first use.  The board page  *)
(* loads the columns and cards of its board in an effect, which React runs *)
(* after the render that made it due has been committed: when the page is  *)
(* mounted or its board changes and, over the Zustand stores, whenever the  *)
(* column store's array is replaced.  Records keep the fields the          *)
(* hierarchy is made of: id, boardId, columnId.                            *)
(***************************************************************************)
HBoardIds == {"b1", "b2", "b3"}
HColumnIds == {"c1", "c2", "c3"}
HCardIds == {"k1", "k2", "k3"}
HVariants == {"reducer", "zustand"}
HTables == {"boards", "columns", "cards"}

\* activeBoard: null, and useParams without an id
NoBoard == "null"

\* the first n of three names
FirstIds(names, n) == {names[k] : k \in 1..(IF n < 3 THEN n ELSE 3)}
HBoardKeys == <<"b1", "b2", "b3">>
HColumnKeys == <<"c1", "c2", "c3">>
HCardKeys == <<"k1", "k2", "k3">>
HBoardIdsUsed == FirstIds(HBoardKeys, NumHBoards)
HColumnIdsUsed == FirstIds(HColumnKeys, NumHColumns)
HCardIdsUsed == FirstIds(HCardKeys, NumHCards)

\* generateId: an id that was not generated before, here the first of the
\* names that is free
FreshIds(names, n, used) ==
    {names[k] : k \in {k \in 1..(IF n < 3 THEN n ELSE 3) :
                          /\ names[k] \notin used
                          /\ \A j \in 1..(k - 1) : names[j] \in used}}

\* the board store's init: boards[0] of getAll, the least primary key
FirstBoard(bs) ==
    HBoardKeys[CHOOSE i \in 1..3 :
                  /\ HBoardKeys[i] \in bs
                  /\ \A j \in 1..(i - 1) : HBoardKeys[j] \notin bs]

\* utils/storage deleteFromIndexedDB, IndexedDBAdapter.delete: the request
\* deletes the key and the function returns true, or it fails, the error is
\* caught and the function returns false
deleteFromIndexedDB(table, id, ok) ==
    IF ok THEN {r \in table : r.id # id} ELSE table

\* utils/storage saveToIndexedDB, IndexedDBAdapter.save: put, or false
saveToIndexedDB(table, data, ok) ==
    IF ok THEN {r \in table : r.id # data.id} \cup {data} ELSE table

\* reducer DELETE_CARD / DELETE_COLUMN / DELETE_BOARD and the stores'
\* filter(x => x.id !== id)
FilterOutId(coll, id) == {r \in coll : r.id # id}

\* reducer UPDATE_CARD and the card store's map: the card of the payload's
\* id takes the payload's fields, a card that is gone is not added
MapById(coll, rec) == {IF r.id = rec.id THEN rec ELSE r : r \in coll}

\* the IndexedDB requests of the handlers, made through utils/storage
HPut(table, rec) ==
    [op |-> "put", table |-> table, rec |-> rec, svc |-> FALSE]
HDelete(table, id) ==
    [op |-> "delete", table |-> table, rec |-> [id |-> id], svc |-> FALSE]
HGetAll(table) ==
    [op |-> "getAll", table |-> table, rec |-> [id |-> "all"], svc |-> FALSE]

\* the same request made by a store through its StorageService
\* (save / delete / getAll: ensureInitialized(), then the adapter)
ViaService(o) == [o EXCEPT !.svc = TRUE]

\* storageService.init() called by loadColumns
ServiceInit(table) ==
    [op |-> "init", table |-> table, rec |-> [id |-> "all"], svc |-> TRUE]

\* what a handler does when the requests it awaits have settled
Eff(e, coll, rec) == [e |-> e, coll |-> coll, rec |-> rec]

\* the requests a handler issues together and awaits, and what follows them
\* up to its next await
Step(ops, effs) == [ops |-> ops, effs |-> effs, then |-> "none"]

\* a step after which the handler loops over the columns it has loaded
StepThenLoadCards(ops, effs) == [ops |-> ops, effs |-> effs, then |-> "loadCards"]

\* the in-memory state the handlers act on
HierMem ==
    [boards |-> h_boards, columns |-> h_columns, cards |-> h_cards,
     timer |-> h_timer, page |-> h_page, activeBoard |-> h_activeBoard,
     loading |-> h_loading, effect |-> h_effect,
     inflight |-> h_inflight, queue |-> h_queue, opens |-> h_opens,
     init |-> h_init, last |-> h_last]

\* the handler in flight with the given id
HierHandler(st, owner) == CHOOSE x \in st.inflight : x.id = owner

\* the handlers in flight with one of them replaced
HierWithHandler(st, h) ==
    [st EXCEPT !.inflight = {x \in @ : x.id # h.id} \cup {h}]

\* one reducer case (state/store.js), one store method (stores/*.js) or a
\* navigation, as the set of states it can leave.  The stores' add and
\* update methods schedule the debounced save of the record, replacing the
\* timer of their table; batchUpdateCards merges the updates it is given,
\* {columnId, position} for a card moved to another column and {position}
\* otherwise, and schedules one save per updated card in the order of the
\* store's array, so the save of the last of them is the one left pending.
\* What a load sets comes from what its getAll returned (read) and, on the
\* reducer page, from the cards it has collected (acc).
HierStoreDispatch(st, e, owner) ==
    CASE e.e \in {"ADD_CARD", "ADD_COLUMN"} ->
            {[st EXCEPT ![e.coll] = @ \cup {e.rec}]}
      [] e.e \in {"addCard", "addColumn", "addBoard"} ->
            {[st EXCEPT ![e.coll] = @ \cup {e.rec},
                        !.timer[e.coll] = {e.rec}]}
      [] e.e \in {"DELETE_CARD", "DELETE_COLUMN", "deleteCard",
                  "deleteColumn"} ->
            {[st EXCEPT ![e.coll] = FilterOutId(@, e.rec.id)]}
      [] e.e = "deleteBoard" ->
            {[st EXCEPT !.boards = FilterOutId(@, e.rec.id),
                        !.activeBoard = IF @ = e.rec.id THEN NoBoard ELSE @]}
      [] e.e \in {"UPDATE_CARD", "UPDATE_COLUMN"} ->
            {[st EXCEPT ![e.coll] = MapById(@, e.rec)]}
      [] e.e = "updateColumn" ->
            {[st EXCEPT !.columns = MapById(@, e.rec),
                        !.timer.columns =
                            IF \E c \in st.columns : c.id = e.rec.id
                            THEN {e.rec} ELSE @]}
      [] e.e = "batchUpdateCards" ->
            LET upd(c) == IF c.id = e.rec.id /\ e.rec.cross
                          THEN [c EXCEPT !.columnId = e.rec.columnId] ELSE c
                hit == {c \in st.cards : c.id \in e.rec.ids}
            IN IF hit = {}
               THEN {st}
               ELSE {[st EXCEPT !.cards = {upd(c) : c \in @},
                                !.timer.cards = {upd(l)}] : l \in hit}
      [] e.e \in {"SET_COLUMNS", "loadColumns"} ->
            {[st EXCEPT !.columns =
                 {c \in HierHandler(st, owner).read : c.boardId = e.rec.boardId}]}
      [] e.e = "push" ->
            {HierWithHandler(st,
                [HierHandler(st, owner) EXCEPT !.acc =
                    @ \cup {k \in HierHandler(st, owner).read :
                               k.columnId = e.rec.columnId}])}
      [] e.e = "SET_CARDS" ->
            {[st EXCEPT !.cards = HierHandler(st, owner).acc]}
      [] e.e = "loadCards" ->
            {[st EXCEPT !.cards =
                 {k \in HierHandler(st, owner).read :
                     k.columnId \in e.rec.columnIds}]}
      [] e.e \in {"SET_LOADING", "loading"} ->
            {[st EXCEPT !.loading = e.rec.value]}
      [] e.e = "setActiveBoard" ->
            {[st EXCEPT !.activeBoard = e.rec.id]}
      [] e.e = "navigate" ->
            {[st EXCEPT !.page = e.rec.id,
                        !.effect = IF e.rec.id = NoBoard THEN FALSE
                                   ELSE IF e.rec.id # st.page THEN TRUE
                                   ELSE @]}

\* the board page's effect has activeBoardId and, over the Zustand stores,
\* the column store's columns among its dependencies: a store method that
\* replaces the array makes the effect of a mounted page due
HierDispatch(st, e, owner) ==
    {IF h_variant = "zustand" /\ e.coll = "columns" /\ s.page # NoBoard
     THEN [s EXCEPT !.effect = TRUE] ELSE s
     : s \in HierStoreDispatch(st, e, owner)}

\* the effects of one resumption, in order
RECURSIVE HierDispatchAll(_, _, _)
HierDispatchAll(st, effs, owner) ==
    IF effs = <<>>
    THEN {st}
    ELSE UNION {HierDispatchAll(s, Tail(effs), owner)
                : s \in HierDispatch(st, Head(effs), owner)}

\* state/cards deleteCard and, over the Zustand stores, the card store's
\* deleteCard after it (StorageService.delete on the same table, then the
\* filter); the results of the deletes are not read
deleteCardSteps(id) ==
    IF h_variant = "zustand"
    THEN <<Step(<<HDelete("cards", id)>>, <<>>),
           Step(<<ViaService(HDelete("cards", id))>>,
                <<Eff("deleteCard", "cards", [id |-> id])>>)>>
    ELSE <<Step(<<HDelete("cards", id)>>,
                <<Eff("DELETE_CARD", "cards", [id |-> id])>>)>>

RECURSIVE deleteCardsSteps(_)
deleteCardsSteps(ids) ==
    IF ids = <<>> THEN <<>>
    ELSE deleteCardSteps(Head(ids)) \o deleteCardsSteps(Tail(ids))

\* BoardPage.handleDeleteColumn: the cards of the column as captured at
\* render, one after the other, then the column
handleDeleteColumn(cardsToDelete, columnId) ==
    deleteCardsSteps(cardsToDelete)
    \o (IF h_variant = "zustand"
        THEN <<Step(<<HDelete("columns", columnId)>>, <<>>),
               Step(<<ViaService(HDelete("columns", columnId))>>,
                    <<Eff("deleteColumn", "columns", [id |-> columnId])>>)>>
        ELSE <<Step(<<HDelete("columns", columnId)>>,
                    <<Eff("DELETE_COLUMN", "columns", [id |-> columnId])>>)>>)

\* BoardPage.handleDeleteCard
handleDeleteCard(cardId) == deleteCardSteps(cardId)

\* BoardPage.handleAddCard: state/cards createCard saves the new record
\* (the result of the save is not read), then ADD_CARD / addCard appends it
handleAddCard(card) ==
    <<Step(<<HPut("cards", card)>>,
           <<Eff(IF h_variant = "zustand" THEN "addCard" ELSE "ADD_CARD",
                 "cards", card)>>)>>

\* BoardPage.handleAddColumn: state/columns createColumn, then ADD_COLUMN /
\* addColumn
handleAddColumn(column) ==
    <<Step(<<HPut("columns", column)>>,
           <<Eff(IF h_variant = "zustand" THEN "addColumn" ELSE "ADD_COLUMN",
                 "columns", column)>>)>>

\* BoardPage.handleEditColumn, with a new title: state/columns updateColumn
\* saves the column as it was captured at render, then UPDATE_COLUMN / the
\* column store's updateColumn
handleEditColumn(column) ==
    <<Step(<<HPut("columns", column)>>,
           <<Eff(IF h_variant = "zustand" THEN "updateColumn" ELSE "UPDATE_COLUMN",
                 "columns", column)>>)>>

\* BoardPage.handleDragEnd of a card: every changed card is saved as it was
\* captured at render, the moved one with its new column, all awaited
\* together; then one UPDATE_CARD per saved record, or batchUpdateCards
\* with the moved card's new column when it changed column (cross) and the
\* cards' positions
dragEndSteps(moved, others, cross) ==
    LET recs == <<moved>> \o others
    IN <<Step([k \in 1..Len(recs) |-> HPut("cards", recs[k])],
              IF h_variant = "zustand"
              THEN <<Eff("batchUpdateCards", "cards",
                         [id |-> moved.id, columnId |-> moved.columnId,
                          cross |-> cross,
                          ids |-> {recs[k].id : k \in 1..Len(recs)}])>>
              ELSE [k \in 1..Len(recs) |-> Eff("UPDATE_CARD", "cards", recs[k])])>>

\* the cards loop of loadBoardData over the reducer store: for each loaded
\* column in turn cardActions.loadCards reads the 'cards' table and the
\* column's cards are pushed to allCards; then SET_CARDS, and SET_LOADING
\* false in the finally block
loadCardsSteps(columnIds) ==
    [k \in 1..Len(columnIds) |->
        Step(<<HGetAll("cards")>>,
             <<Eff("push", "acc", [columnId |-> columnIds[k]])>>)]
    \o <<Step(<<>>, <<Eff("SET_CARDS", "cards", [from |-> "acc"]),
                     Eff("SET_LOADING", "loading", [value |-> FALSE])>>)>>

\* BoardPage's effect, loadBoardData for activeBoardId.  Over the reducer
\* store: SET_LOADING, columnActions.loadColumns, SET_COLUMNS, then the
\* cards loop.  Over the Zustand stores: the column store's loadColumns
\* (loading, storageService.init(), getAll, then the columns and loading
\* in one set), and for columnIds, the board's columns of the render the
\* effect belongs to, unless there is none, the card store's loadCards
\* (storageService.init(), getAll, set)
loadBoardData(activeBoardId, columnIds) ==
    IF h_variant = "zustand"
    THEN <<Step(<<>>, <<Eff("loading", "loading", [value |-> TRUE])>>),
           Step(<<ServiceInit("columns")>>, <<>>),
           Step(<<ViaService(HGetAll("columns"))>>,
                <<Eff("loadColumns", "columns", [boardId |-> activeBoardId]),
                  Eff("loading", "loading", [value |-> FALSE])>>)>>
         \o (IF columnIds # {}
             THEN <<Step(<<ServiceInit("cards")>>, <<>>),
                    Step(<<ViaService(HGetAll("cards"))>>,
                         <<Eff("loadCards", "cards", [columnIds |-> columnIds])>>)>>
             ELSE <<>>)
    ELSE <<Step(<<>>, <<Eff("SET_LOADING", "loading", [value |-> TRUE])>>),
           StepThenLoadCards(<<HGetAll("columns")>>,
                <<Eff("SET_COLUMNS", "columns", [boardId |-> activeBoardId])>>)>>

\* Sidebar.handleCreateBoard: state/boards createBoard, then the board
\* store's addBoard and setActiveBoard, and navigate to the new board
handleCreateBoard(board) ==
    <<Step(<<HPut("boards", board)>>,
           <<Eff("addBoard", "boards", board),
             Eff("setActiveBoard", "activeBoard", board),
             Eff("navigate", "page", board)>>)>>

\* Sidebar.handleBoardClick, HomePage.handleSelectBoard
handleBoardClick(boardId) ==
    <<Eff("setActiveBoard", "activeBoard", [id |-> boardId]),
      Eff("navigate", "page", [id |-> boardId])>>

\* Sidebar.handleDeleteBoard: state/boards deleteBoard, then the board
\* store's deleteBoard (StorageService.delete on the same table, then the
\* filter of the in-memory boards), then navigate('/') when the board was
\* the store's active one at render.  Columns and cards are not touched.
handleDeleteBoard(boardId, wasActive) ==
    <<Step(<<HDelete("boards", boardId)>>, <<>>),
      Step(<<ViaService(HDelete("boards", boardId))>>,
           <<Eff("deleteBoard", "boards", [id |-> boardId])>>
           \o (IF wasActive
               THEN <<Eff("navigate", "page", [id |-> NoBoard])>> ELSE <<>>))>>

\* the tables hold boards, columns of those boards and cards of those
\* columns; the board page has loaded the columns of the active board and
\* the cards of those columns (SET_COLUMNS, SET_CARDS / loadColumns,
\* loadCards), the board list holds every board; the application has
\* started on its first board, which the board store's init made the
\* active one.  A
\* store's StorageService is initialized when the store has loaded records
\* with it (the Zustand page calls loadColumns for its board and loadCards
\* when the board has columns); it may not be when the store holds nothing
\* it loaded, and the stores the reducer page does not use never are.  The
\* load has completed; over the Zustand stores the columns it has set have
\* made the effect due again
HierInit ==
    /\ \E bs \in {FirstIds(HBoardKeys, n) : n \in 1..NumHBoards},
          cs \in {FirstIds(HColumnKeys, n) : n \in 0..NumHColumns},
          ks \in {FirstIds(HCardKeys, n) : n \in 0..NumHCards} :
         /\ (cs # {} => bs # {}) /\ (ks # {} => cs # {})
         /\ \E colBoard \in [cs -> bs], cardCol \in [ks -> cs],
               active \in {FirstBoard(bs)} :
              /\ h_dbBoards = {[id |-> b] : b \in bs}
              /\ h_dbColumns = {[id |-> c, boardId |-> colBoard[c]] : c \in cs}
              /\ h_dbCards = {[id |-> k, columnId |-> cardCol[k]] : k \in ks}
              /\ h_columns = {c \in h_dbColumns : c.boardId = active}
              /\ h_cards = {k \in h_dbCards : colBoard[k.columnId] = active}
              /\ h_page = active
              /\ h_activeBoard = active
              /\ h_appBoards = bs
              /\ h_used = bs \cup cs \cup ks
    /\ h_boards = h_dbBoards
    /\ h_variant \in HVariants
    /\ h_timer = [t \in HTables |-> {}]
    /\ h_faults = 0
    /\ h_last = [op |-> "none"]
    /\ h_inflight = {}
    /\ h_queue = <<>>
    /\ h_calls = 0
    /\ h_loads = 0
    /\ h_loading = FALSE
    /\ h_effect = (h_variant = "zustand")
    /\ h_opens = <<>>
    /\ \E ib \in BOOLEAN,
          ic \in (IF h_variant # "zustand" THEN {FALSE}
                  ELSE IF h_columns # {} THEN {TRUE} ELSE BOOLEAN),
          ik \in (IF h_variant # "zustand" THEN {FALSE}
                  ELSE IF h_cards # {} THEN {TRUE} ELSE BOOLEAN) :
         h_init = [boards |-> ib, columns |-> ic, cards |-> ik]
    /\ HierFrameIdle

HierApply(st) ==
    /\ h_boards' = st.boards
    /\ h_columns' = st.columns
    /\ h_cards' = st.cards
    /\ h_timer' = st.timer
    /\ h_page' = st.page
    /\ h_activeBoard' = st.activeBoard
    /\ h_loading' = st.loading
    /\ h_effect' = st.effect
    /\ h_inflight' = st.inflight
    /\ h_queue' = st.queue
    /\ h_opens' = st.opens
    /\ h_init' = st.init
    /\ h_last' = st.last

\* the board page shows its columns: it is mounted on a board that its
\* board collection holds (the reducer store's boards are those loaded when
\* the application started), and state.loading / the column store's
\* loading is not set
HierPageShown ==
    /\ h_page # NoBoard
    /\ h_page \in (IF h_variant = "zustand"
                   THEN {b.id : b \in h_boards} ELSE h_appBoards)
    /\ ~h_loading

\* boardColumns, and the cards a column shows
HierBoardColumns == {c \in h_columns : HierPageShown /\ c.boardId = h_page}
HierColumnCards(columnId) == {c \in h_cards : c.columnId = columnId}

\* a set as the sequences that list it once
HierOrders(S) ==
    {s \in [1..Cardinality(S) -> S] : \A i, j \in DOMAIN s : i # j => s[i] # s[j]}

\* the adapter.init() calls of a table's service whose open is pending
HierOpensOf(st, table) == {k \in 1..Len(st.opens) : st.opens[k].table = table}

\* a request is made.  Through utils/storage it goes to IndexedDB.  Through
\* a StorageService that is not initialized, init() has the adapter make a
\* new Dexie instance and open it, and the request waits for the open;
\* init() of an initialized service returns at once; a request on an
\* initialized service goes to this.db, the newest instance, where it is
\* held while the instance is opening.
HierRequest(st, owner, o) ==
    LET item == [owner |-> owner, op |-> o]
        mine == HierOpensOf(st, o.table)
        newest == CHOOSE k \in mine : \A j \in mine : j <= k
    IN IF ~o.svc
       THEN [st EXCEPT !.queue = Append(@, item)]
       ELSE IF ~st.init[o.table]
       THEN [st EXCEPT !.opens = Append(@, [table |-> o.table, owner |-> owner,
                                            op |-> o, parked |-> <<>>])]
       ELSE IF o.op = "init"
       THEN st
       ELSE IF mine # {}
       THEN [st EXCEPT !.opens[newest].parked = Append(@, item)]
       ELSE [st EXCEPT !.queue = Append(@, item)]

\* a handler that makes a getAll request will read its result, which is []
\* unless the request succeeds (loadAllFromIndexedDB and the adapter's
\* getAll catch a failure and return [])
HierIssue(st, owner, o) ==
    HierRequest(IF o.op = "getAll"
                THEN HierWithHandler(st, [HierHandler(st, owner) EXCEPT !.read = {}])
                ELSE st,
                owner, o)

RECURSIVE HierIssueAll(_, _, _)
HierIssueAll(st, owner, ops) ==
    IF ops = <<>> THEN st
    ELSE HierIssueAll(HierIssue(st, owner, Head(ops)), owner, Tail(ops))

\* the handler still awaits a request
HierAwaiting(st, owner) ==
    \/ \E k \in 1..Len(st.queue) : st.queue[k].owner = owner
    \/ \E k \in 1..Len(st.opens) :
          \/ st.opens[k].owner = owner
          \/ \E j \in 1..Len(st.opens[k].parked) :
                st.opens[k].parked[j].owner = owner

\* the steps left to a handler that has done the effects of its step: the
\* rest of its steps, or those of the reducer page's loop over the columns
\* it has loaded, sorted by position, which is any order here
HierStepsLeft(h) ==
    IF Head(h.steps).then = "loadCards"
    THEN {loadCardsSteps(order) :
            order \in HierOrders({c.id : c \in {x \in h.read : x.boardId = h.arg}})}
    ELSE {Tail(h.steps)}

\* what a handler awaited has settled: when it awaits nothing more it
\* resumes in the same task, runs up to its next await, issuing the
\* requests of that step, or to its end; nobody awaits a timer's save
RECURSIVE HierResume(_, _)
HierResume(st, owner) ==
    IF owner = 0 \/ HierAwaiting(st, owner)
    THEN {st}
    ELSE UNION {
           UNION {
             IF next = <<>>
             THEN {[s EXCEPT !.inflight = {x \in @ : x.id # owner},
                             !.last = IF HierHandler(s, owner).kind
                                           \in {"handleDeleteColumn",
                                                "handleDeleteBoard"}
                                      THEN [op |-> HierHandler(s, owner).kind,
                                            arg |-> HierHandler(s, owner).arg]
                                      ELSE @]}
             ELSE HierResume(
                    HierIssueAll(
                        HierWithHandler(s, [HierHandler(s, owner)
                                               EXCEPT !.steps = next]),
                        owner, next[1].ops),
                    owner)
             : next \in HierStepsLeft(HierHandler(s, owner))}
           : s \in HierDispatchAll(st, Head(HierHandler(st, owner).steps).effs,
                                   owner)}

RECURSIVE HierResumeAll(_, _)
HierResumeAll(st, owners) ==
    IF owners = <<>> THEN {st}
    ELSE UNION {HierResumeAll(s, Tail(owners)) : s \in HierResume(st, Head(owners))}

\* a handler is called: it issues the requests of its first step
HierCall(kind, arg, steps) ==
    /\ Cardinality(h_inflight) < MaxHInFlight
    /\ h_calls < MaxHCalls
    /\ h_calls' = h_calls + 1
    /\ LET h == [id |-> h_calls + 1, kind |-> kind, arg |-> arg, steps |-> steps,
                 read |-> {}, acc |-> {}]
       IN \E st \in HierResume(
                      HierIssueAll([HierMem EXCEPT !.inflight = @ \cup {h}],
                                   h.id, steps[1].ops),
                      h.id) :
            HierApply(st)

\* the add-card form of a column that is shown
HierAddCard ==
    \E col \in HierBoardColumns, k \in FreshIds(HCardKeys, NumHCards, h_used) :
      /\ HierCall("handleAddCard", k,
                  handleAddCard([id |-> k, columnId |-> col.id]))
      /\ h_used' = h_used \cup {k}
      /\ UNCHANGED <<h_dbBoards, h_dbColumns, h_dbCards, h_variant, h_faults,
                     h_appBoards, h_loads>>
      /\ UNCHANGED hierFrame

\* the delete button of a card that is shown
HierDeleteCard ==
    \E col \in HierBoardColumns :
      \E c \in HierColumnCards(col.id) :
        /\ HierCall("handleDeleteCard", c.id, handleDeleteCard(c.id))
        /\ UNCHANGED <<h_dbBoards, h_dbColumns, h_dbCards, h_variant, h_faults,
                       h_appBoards, h_used, h_loads>>
        /\ UNCHANGED hierFrame

\* the add-column form of the board that is shown
HierAddColumn ==
    \E c \in FreshIds(HColumnKeys, NumHColumns, h_used) :
      /\ HierPageShown
      /\ HierCall("handleAddColumn", c,
                  handleAddColumn([id |-> c, boardId |-> h_page]))
      /\ h_used' = h_used \cup {c}
      /\ UNCHANGED <<h_dbBoards, h_dbColumns, h_dbCards, h_variant, h_faults,
                     h_appBoards, h_loads>>
      /\ UNCHANGED hierFrame

\* the edit button of a column that is shown, and a new title entered
HierEditColumn ==
    \E col \in HierBoardColumns :
      /\ HierCall("handleEditColumn", col.id, handleEditColumn(col))
      /\ UNCHANGED <<h_dbBoards, h_dbColumns, h_dbCards, h_variant, h_faults,
                     h_appBoards, h_used, h_loads>>
      /\ UNCHANGED hierFrame

\* the delete button of a column that is shown, confirmed
HierDeleteColumn ==
    \E col \in HierBoardColumns :
      \E order \in HierOrders({c.id : c \in HierColumnCards(col.id)}) :
        /\ HierCall("handleDeleteColumn", col.id,
                    handleDeleteColumn(order, col.id))
        /\ UNCHANGED <<h_dbBoards, h_dbColumns, h_dbCards, h_variant, h_faults,
                       h_appBoards, h_used, h_loads>>
        /\ UNCHANGED hierFrame

\* a card that is shown is dropped at another place of its column (the
\* column's cards are all saved) or in another column that is shown (the
\* cards of the two columns whose position changes are saved too)
HierDragEnd ==
    \E src, dst \in HierBoardColumns :
      \E c \in HierColumnCards(src.id) :
        \E S \in SUBSET ((HierColumnCards(src.id) \cup HierColumnCards(dst.id))
                            \ {c}) :
          \E others \in HierOrders(S) :
            /\ src = dst => S = HierColumnCards(src.id) \ {c} /\ S # {}
            /\ HierCall("handleDragEnd", c.id,
                        dragEndSteps([c EXCEPT !.columnId = dst.id], others,
                                     src # dst))
            /\ UNCHANGED <<h_dbBoards, h_dbColumns, h_dbCards, h_variant, h_faults,
                       h_appBoards, h_used, h_loads>>
            /\ UNCHANGED hierFrame

\* the new-board form of the sidebar
HierCreateBoard ==
    \E b \in FreshIds(HBoardKeys, NumHBoards, h_used) :
      /\ HierCall("handleCreateBoard", b, handleCreateBoard([id |-> b]))
      /\ h_used' = h_used \cup {b}
      /\ UNCHANGED <<h_dbBoards, h_dbColumns, h_dbCards, h_variant, h_faults,
                     h_appBoards, h_loads>>
      /\ UNCHANGED hierFrame

\* a board of the sidebar's list, or of the home page's, is clicked
HierBoardClick ==
    \E b \in h_boards :
      /\ h_calls < MaxHCalls
      /\ h_calls' = h_calls + 1
      /\ \E st \in HierDispatchAll(HierMem, handleBoardClick(b.id), 0) :
            HierApply(st)
      /\ UNCHANGED <<h_dbBoards, h_dbColumns, h_dbCards, h_variant, h_faults,
                     h_appBoards, h_used, h_loads>>
      /\ UNCHANGED hierFrame

\* React runs the effect of the mounted board page: loadBoardData is
\* called for the page's board, with the columns of the render the effect
\* belongs to, and runs up to its first pending await
HierEffect ==
    /\ h_effect
    /\ h_page # NoBoard
    /\ h_loads < MaxHLoads
    /\ h_loads' = h_loads + 1
    /\ LET h == [id |-> MaxHCalls + h_loads + 1, kind |-> "loadBoardData",
                 arg |-> h_page,
                 steps |-> loadBoardData(h_page,
                              {c.id : c \in {x \in h_columns : x.boardId = h_page}}),
                 read |-> {}, acc |-> {}]
       IN \E st \in HierResume([HierMem EXCEPT !.inflight = @ \cup {h},
                                               !.effect = FALSE],
                               h.id) :
            HierApply(st)
    /\ UNCHANGED <<h_dbBoards, h_dbColumns, h_dbCards, h_variant, h_faults,
                   h_appBoards, h_used, h_calls>>
    /\ UNCHANGED hierFrame

\* the delete button of a board in the sidebar, confirmed
HierDeleteBoard ==
    \E b \in h_boards :
      /\ HierCall("handleDeleteBoard", b.id,
                  handleDeleteBoard(b.id, h_activeBoard = b.id))
      /\ UNCHANGED <<h_dbBoards, h_dbColumns, h_dbCards, h_variant, h_faults,
                       h_appBoards, h_used, h_loads>>
      /\ UNCHANGED hierFrame

\* the debounce delay of a store elapses: the callback calls
\* StorageService.save of the scheduled record and awaits it
HierTimerFires ==
    \E t \in HTables :
      \E rec \in h_timer[t] :
        /\ HierApply(HierIssue([HierMem EXCEPT !.timer[t] = {}], 0,
                               ViaService(HPut(t, rec))))
        /\ UNCHANGED <<h_dbBoards, h_dbColumns, h_dbCards, h_variant, h_faults,
                       h_appBoards, h_used, h_calls, h_loads>>
        /\ UNCHANGED hierFrame

\* the tables after a request has settled
HierDbApply(db, o, ok) ==
    CASE o.op = "put" ->
            [db EXCEPT ![o.table] = saveToIndexedDB(@, o.rec, ok)]
      [] o.op = "delete" ->
            [db EXCEPT ![o.table] = deleteFromIndexedDB(@, o.rec.id, ok)]
      [] OTHER -> db

\* each request succeeds or fails on its own
HOutcomes(o) == IF h_faults < MaxHFaults THEN {TRUE, FALSE} ELSE {TRUE}

\* a getAll that has succeeded gives its handler the records of the table
HierRead(st, q, db, ok) ==
    IF q.op.op = "getAll" /\ ok /\ q.owner # 0
    THEN HierWithHandler(st, [HierHandler(st, q.owner) EXCEPT !.read = db[q.op.table]])
    ELSE st

\* the oldest open settles: this.initialized = its result.  The requests
\* held on the instance go to IndexedDB, or are rejected when it did not
\* open.  The request that waited for init() is then made on this.db, the
\* newest instance: held on it while it is opening, rejected when it did
\* not open.  A rejected request makes the adapter return false or [] in
\* the same task, and its handler goes on.
HierOpenSettles ==
    \E ok \in (IF h_faults < MaxHFaults THEN BOOLEAN ELSE {TRUE}) :
      /\ h_opens # <<>>
      /\ LET o == Head(h_opens)
             own == [owner |-> o.owner, op |-> o.op]
             st0 == [HierMem EXCEPT !.opens = Tail(@), !.init[o.table] = ok]
             st1 == IF ok THEN [st0 EXCEPT !.queue = @ \o o.parked] ELSE st0
             later == HierOpensOf(st1, o.table)
             newest == CHOOSE k \in later : \A j \in later : j <= k
             st2 == IF o.op.op = "init" THEN st1
                    ELSE IF later # {}
                    THEN [st1 EXCEPT !.opens[newest].parked = Append(@, own)]
                    ELSE IF ok THEN [st1 EXCEPT !.queue = Append(@, own)]
                    ELSE st1
             settled ==
                (IF ok THEN <<>>
                 ELSE [k \in 1..Len(o.parked) |-> o.parked[k].owner])
                \o (IF o.op.op = "init" \/ (later = {} /\ ~ok)
                    THEN <<o.owner>> ELSE <<>>)
         IN \E st \in HierResumeAll(st2, settled) : HierApply(st)
      /\ h_faults' = IF ok THEN h_faults ELSE h_faults + 1
      /\ UNCHANGED <<h_dbBoards, h_dbColumns, h_dbCards, h_variant,
                     h_appBoards, h_used, h_calls, h_loads>>
      /\ UNCHANGED hierFrame

\* the oldest pending request of a table settles, and the handler that
\* awaited it goes on when it was the last it awaited
HierStorageSettles ==
    \E i \in 1..Len(h_queue) :
      \E ok \in HOutcomes(h_queue[i].op) :
        LET q == h_queue[i]
            rest == [k \in 1..(Len(h_queue) - 1) |->
                        IF k < i THEN h_queue[k] ELSE h_queue[k + 1]]
            db == HierDbApply([boards |-> h_dbBoards, columns |-> h_dbColumns,
                               cards |-> h_dbCards], q.op, ok)
        IN /\ \A j \in 1..(i - 1) : h_queue[j].op.table # q.op.table
           /\ h_dbBoards' = db.boards
           /\ h_dbColumns' = db.columns
           /\ h_dbCards' = db.cards
           /\ h_faults' = IF ok THEN h_faults ELSE h_faults + 1
           /\ \E st \in HierResume(HierRead([HierMem EXCEPT !.queue = rest],
                                             q, db, ok),
                                    q.owner) :
                 HierApply(st)
           /\ UNCHANGED <<h_variant, h_appBoards, h_used, h_calls, h_loads>>
           /\ UNCHANGED hierFrame

HierNext ==
    \/ HierAddCard
    \/ HierDeleteCard
    \/ HierAddColumn
    \/ HierDeleteColumn
    \/ HierEditColumn
    \/ HierDragEnd
    \/ HierCreateBoard
    \/ HierBoardClick
    \/ HierEffect
    \/ HierDeleteBoard
    \/ HierTimerFires
    \/ HierOpenSettles
    \/ HierStorageSettles

SpecHierarchy == HierInit /\ [][HierNext]_vars

\* C22: after handleDeleteColumn has completed for column c, no card with
\* columnId c is in the in-memory cards or in the 'cards' table, and c is
\* neither in the in-memory columns nor in the 'columns' table.
C22_ColumnDeleteCascades ==
    (h_last.op = "handleDeleteColumn" /\ h_faults = 0)
        => /\ \A c \in h_cards \cup h_dbCards : c.columnId # h_last.arg
           /\ \A c \in h_columns \cup h_dbColumns : c.id # h_last.arg

\* C23: after handleDeleteBoard has completed for board b, no column with
\* boardId b is in memory or in the 'columns' table, and no card of such a
\* column is in memory or in the 'cards' table.
C23_BoardDeleteCascades ==
    (h_last.op = "handleDeleteBoard" /\ h_faults = 0)
        => /\ \A c \in h_columns \cup h_dbColumns : c.boardId # h_last.arg
           /\ \A k \in h_cards \cup h_dbCards :
                 \A c \in h_columns \cup h_dbColumns :
                    c.id = k.columnId => c.boardId # h_last.arg

(***************************************************************************)
(* Board page with a search query.  Header.handleSearchChange puts the     *)
(* text of the search box in useUIStore, and the board page over the       *)
(* Zustand stores reads it through useDebounce.  (pages/BoardPage.js over  *)
(* the reducer store reads state.searchQuery, a field the reducer of       *)
(* state/store.js neither has nor sets, so that page never shows a         *)
(* filtered board.)  The page's effect loads the board's columns and       *)
(* cards, and runs again whenever the column store's array is replaced.    *)
(* A card's field `matches` says whether its title or description          *)
(* contains the query.  The stores' StorageService was initialized by the  *)
(* load that brought the board into memory.                                *)
(***************************************************************************)
\* filteredColumns: a column's sorted cards that match the query
MatchingCards(cards, col) == SelectSeq(ColumnCards(cards, col), LAMBDA c : c.matches)

\* the cards KanbanColumn receives (render: isSearchActive ? column.cards :
\* the column's sorted cards); each is a Draggable whose index is its index
\* in this list
ShownCards(cards, col, active) ==
    IF active THEN MatchingCards(cards, col) ELSE ColumnCards(cards, col)

\* the columns that are rendered: with a search only those with a match
ShownColumns(columns, cards, active) ==
    {col \in columns : ~active \/ MatchingCards(cards, col) # <<>>}

\* handleDragEnd(result) for type CARD and a non-null destination: the
\* records updateCard saves, in the order the puts are made
handleDragEnd(cards, src, si, dst, di, draggableId) ==
    IF dst = src /\ di = si THEN <<>>
    ELSE IF src = dst THEN DragSameUpdates(cards, src, si, di)
    ELSE DragCrossUpdates(cards, src, dst, di, draggableId)

\* handleDragEnd: what it hands to batchUpdateCards, by card id.  In one
\* column {position} for every card; across columns {columnId, position}
\* for the moved card and {position} for the others
DragStoreUpdates(updatedCards, src, dst, draggableId) ==
    [id \in {updatedCards[k].id : k \in 1..Len(updatedCards)} |->
        LET u == FindById(updatedCards, id)
        IN IF src # dst /\ id = draggableId
           THEN [columnId |-> u.columnId, position |-> u.position]
           ELSE [position |-> u.position]]

\* columnId and position of every card, by id
Placement(cards) ==
    {[id |-> cards[k].id, columnId |-> cards[k].columnId,
      position |-> cards[k].position] : k \in 1..Len(cards)}

\* a request on a table of the database, and what awaits it
SearchRequest(table, o, who) == [table |-> table, op |-> o, who |-> who]

\* the requests on one table settle in the order they were made
SearchOldest(i) ==
    \A j \in 1..(i - 1) : sf_queue[j].table # sf_queue[i].table

\* the pending requests without the i-th
SearchQueueWithout(i) ==
    [k \in 1..(Len(sf_queue) - 1) |->
        IF k < i THEN sf_queue[k] ELSE sf_queue[k + 1]]

\* each request fails or succeeds on its own
SearchOutcomes == IF sf_faults < MaxStorageFaults THEN {TRUE, FALSE} ELSE {TRUE}

\* a loaded board: every column's positions are 0..n-1, memory and the
\* table agree, the search box is empty; the load that has just set the
\* columns has made the page's effect due again
SearchInit ==
    /\ \E n \in 0..NumSearchCards :
         \E col \in [1..n -> ColIds], mt \in [1..n -> BOOLEAN] :
           sf_cards = [k \in 1..n |->
               [id |-> k, columnId |-> col[k], matches |-> mt[k],
                position |-> Cardinality({j \in 1..(k - 1) : col[j] = col[k]})]]
    /\ sf_db = [k \in 1..Len(sf_cards) |-> sf_cards[k]]
    /\ sf_columns = ColIds
    /\ sf_query = FALSE
    /\ sf_active = FALSE
    /\ sf_loading = FALSE
    /\ sf_effect = TRUE
    /\ sf_loads = 0
    /\ sf_timer = {}
    /\ sf_queue = <<>>
    /\ sf_faults = 0
    /\ sf_drops = 0
    /\ sf_last = [op |-> "none"]
    /\ sf_inflight = <<>>
    /\ SearchFrameIdle

\* Header.handleSearchChange: setSearchQuery(e.target.value), with a text
\* that reaches or loses length 2
SearchChange ==
    /\ sf_query' = ~sf_query
    /\ UNCHANGED <<sf_cards, sf_db, sf_columns, sf_active, sf_loading,
                   sf_effect, sf_loads, sf_timer, sf_queue, sf_faults,
                   sf_drops, sf_last, sf_inflight>>
    /\ UNCHANGED searchFrame

\* useDebounce: 300 ms after the last change setDebouncedValue(value) runs
\* and the page filters, or stops filtering
SearchDebounced ==
    /\ sf_active # sf_query
    /\ sf_active' = sf_query
    /\ sf_last' = [op |-> "search"]
    /\ UNCHANGED <<sf_cards, sf_db, sf_columns, sf_query, sf_loading,
                   sf_effect, sf_loads, sf_timer, sf_queue, sf_faults,
                   sf_drops, sf_inflight>>
    /\ UNCHANGED searchFrame

\* the page's effect runs loadBoardData up to its first pending await:
\* loadColumns sets loading, storageService.init() returns true, and
\* getAll('columns') is requested.  columnIds will be taken from the
\* columns of the render the effect belongs to
SearchEffect ==
    /\ sf_effect
    /\ sf_loads < MaxSearchLoads
    /\ sf_effect' = FALSE
    /\ sf_loading' = TRUE
    /\ sf_loads' = sf_loads + 1
    /\ sf_queue' = Append(sf_queue,
          SearchRequest("columns", [op |-> "getAll"],
                        [kind |-> "loadColumns", columnIds |-> sf_columns]))
    /\ UNCHANGED <<sf_cards, sf_db, sf_columns, sf_query, sf_active, sf_timer,
                   sf_faults, sf_drops, sf_last, sf_inflight>>
    /\ UNCHANGED searchFrame

\* getAll('columns') settles, with [] after a failure: loadColumns sets the
\* board's columns and clears loading, which makes the effect due again;
\* loadBoardData goes on to loadCards(columnIds) unless columnIds is empty,
\* and getAll('cards') is requested
SearchColumnsLoaded ==
    \E i \in 1..Len(sf_queue), ok \in SearchOutcomes :
        LET q == sf_queue[i]
        IN /\ q.who.kind = "loadColumns"
           /\ SearchOldest(i)
           /\ sf_columns' = IF ok THEN ColIds ELSE {}
           /\ sf_loading' = FALSE
           /\ sf_effect' = TRUE
           /\ sf_queue' =
                IF q.who.columnIds # {}
                THEN Append(SearchQueueWithout(i),
                        SearchRequest("cards", [op |-> "getAll"],
                            [kind |-> "loadCards", columnIds |-> q.who.columnIds]))
                ELSE SearchQueueWithout(i)
           /\ sf_faults' = IF ok THEN sf_faults ELSE sf_faults + 1
           /\ UNCHANGED <<sf_cards, sf_db, sf_query, sf_active, sf_loads,
                          sf_timer, sf_drops, sf_last, sf_inflight>>
           /\ UNCHANGED searchFrame

\* getAll('cards') settles, with [] after a failure: loadCards keeps the
\* cards of the columns in columnIds
SearchCardsLoaded ==
    \E i \in 1..Len(sf_queue), ok \in SearchOutcomes :
        LET q == sf_queue[i]
            allCards == IF ok THEN sf_db ELSE <<>>
        IN /\ q.who.kind = "loadCards"
           /\ SearchOldest(i)
           /\ sf_cards' = SelectSeq(allCards,
                                    LAMBDA c : c.columnId \in q.who.columnIds)
           /\ sf_last' = [op |-> "loadCards"]
           /\ sf_queue' = SearchQueueWithout(i)
           /\ sf_faults' = IF ok THEN sf_faults ELSE sf_faults + 1
           /\ UNCHANGED <<sf_db, sf_columns, sf_query, sf_active, sf_loading,
                          sf_effect, sf_loads, sf_timer, sf_drops, sf_inflight>>
           /\ UNCHANGED searchFrame

\* the user drops a shown card on a shown column while the board is shown:
\* react-beautiful-dnd reports the indices in the lists that are shown.
\* handleDragEnd runs up to `await Promise.all(...)`: one db.cards.put per
\* updated card has been requested; dropped where it was picked up, it
\* returns at once
SearchDrop ==
    \E src \in ShownColumns(sf_columns, sf_cards, sf_active),
       dst \in ShownColumns(sf_columns, sf_cards, sf_active) :
      \E si \in 0..(Len(ShownCards(sf_cards, src, sf_active)) - 1),
         di \in 0..Len(ShownCards(sf_cards, dst, sf_active)) :
        /\ ~sf_loading
        /\ sf_drops < MaxSearchDrops
        /\ src = dst => di < Len(ShownCards(sf_cards, src, sf_active))
        /\ LET draggableId == ShownCards(sf_cards, src, sf_active)[si + 1].id
               updatedCards == handleDragEnd(sf_cards, src, si, dst, di, draggableId)
               last == [op |-> "dragEnd", searchActive |-> sf_active,
                        id |-> draggableId, src |-> src, si |-> si,
                        dst |-> dst, di |-> di,
                        before |-> Placement(sf_cards)]
           IN IF updatedCards = <<>>
              THEN /\ sf_last' = Merge(last, [alone |-> sf_inflight = <<>>])
                   /\ UNCHANGED <<sf_inflight, sf_queue>>
              ELSE /\ sf_inflight' =
                        Append([k \in 1..Len(sf_inflight) |->
                                   [sf_inflight[k] EXCEPT !.alone = FALSE]],
                               [h |-> sf_drops + 1,
                                pending |-> Len(updatedCards),
                                storeUpdates |-> DragStoreUpdates(updatedCards,
                                                    src, dst, draggableId),
                                last |-> last, alone |-> sf_inflight = <<>>])
                   /\ sf_queue' = sf_queue \o
                        [k \in 1..Len(updatedCards) |->
                            SearchRequest("cards", OpPut(updatedCards[k]),
                                          [kind |-> "drag", h |-> sf_drops + 1])]
                   /\ UNCHANGED sf_last
        /\ sf_drops' = sf_drops + 1
        /\ UNCHANGED <<sf_cards, sf_db, sf_columns, sf_query, sf_active,
                       sf_loading, sf_effect, sf_loads, sf_timer, sf_faults>>
        /\ UNCHANGED searchFrame

\* a db.cards.put of a drop settles.  When it is the last one its handler
\* awaits, the handler resumes in the same task and calls batchUpdateCards,
\* whether or not the puts succeeded (updateCard does not read what
\* saveToIndexedDB returns); batchUpdateCards hands every updated record to
\* debouncedPersist, which leaves a timer for the last of them
SearchPutSettles ==
    \E i \in 1..Len(sf_queue), ok \in SearchOutcomes :
        LET q == sf_queue[i]
            n == CHOOSE k \in 1..Len(sf_inflight) : sf_inflight[k].h = q.who.h
            me == sf_inflight[n]
            persisted == BatchPersisted(sf_cards, me.storeUpdates, me.h, 1)
        IN /\ q.who.kind = "drag"
           /\ SearchOldest(i)
           /\ sf_db' = DbApply(sf_db, q.op, ok)
           /\ sf_queue' = SearchQueueWithout(i)
           /\ IF me.pending = 1
              THEN /\ sf_cards' = storeBatchUpdateCards(sf_cards, me.storeUpdates, me.h)
                   /\ sf_timer' = IF persisted # <<>>
                                  THEN {persisted[Len(persisted)]} ELSE sf_timer
                   /\ sf_last' = Merge(me.last, [alone |-> me.alone])
                   /\ sf_inflight' = SelectSeq(sf_inflight, LAMBDA x : x.h # me.h)
              ELSE /\ sf_inflight' = [sf_inflight EXCEPT ![n].pending = @ - 1]
                   /\ UNCHANGED <<sf_cards, sf_timer, sf_last>>
           /\ sf_faults' = IF ok THEN sf_faults ELSE sf_faults + 1
           /\ UNCHANGED <<sf_columns, sf_query, sf_active, sf_loading,
                          sf_effect, sf_loads, sf_drops>>
           /\ UNCHANGED searchFrame

\* the card store's debounce delay elapses: the callback awaits
\* storageService.save('cards', data), which requests the put
SearchTimerFires ==
    \E data \in sf_timer :
        /\ sf_timer' = {}
        /\ sf_queue' = Append(sf_queue,
              SearchRequest("cards", OpPut(data), [kind |-> "persist"]))
        /\ UNCHANGED <<sf_cards, sf_db, sf_columns, sf_query, sf_active,
                       sf_loading, sf_effect, sf_loads, sf_faults, sf_drops,
                       sf_last, sf_inflight>>
        /\ UNCHANGED searchFrame

\* the put of a debounced save settles; the callback does not read its
\* result
SearchPersistSettles ==
    \E i \in 1..Len(sf_queue), ok \in SearchOutcomes :
        LET q == sf_queue[i]
        IN /\ q.who.kind = "persist"
           /\ SearchOldest(i)
           /\ sf_db' = DbApply(sf_db, q.op, ok)
           /\ sf_queue' = SearchQueueWithout(i)
           /\ sf_faults' = IF ok THEN sf_faults ELSE sf_faults + 1
           /\ UNCHANGED <<sf_cards, sf_columns, sf_query, sf_active,
                          sf_loading, sf_effect, sf_loads, sf_timer, sf_drops,
                          sf_last, sf_inflight>>
           /\ UNCHANGED searchFrame

SearchNext ==
    \/ SearchChange
    \/ SearchDebounced
    \/ SearchEffect
    \/ SearchColumnsLoaded
    \/ SearchCardsLoaded
    \/ SearchDrop
    \/ SearchPutSettles
    \/ SearchTimerFires
    \/ SearchPersistSettles

SpecSearch == SearchInit /\ [][SearchNext]_vars

\* C24: a card drop handled while the search filter is active leaves the
\* position and the columnId of every card as they were.
C24_NoReorderWhileFiltered ==
    (/\ sf_last.op = "dragEnd" /\ sf_last.searchActive /\ sf_last.alone
     /\ sf_faults = 0)
        => Placement(sf_cards) = sf_last.before

(***************************************************************************)
(* Entity stores (stores/boardStore.js, columnStore.js, cardStore.js):     *)
(* init() and loadColumns / loadCards over the Storage Service.  A call    *)
(* runs up to its first await when it is made and resumes once per await;  *)
(* calls may overlap.  A getAll request returns the table's records in key *)
(* order, or fails, which the adapter turns into the result [].            *)
(***************************************************************************)
LoadTasks == 1..NumLoadTasks
LoadIds == 1..NumLoadRecs
LoadParents == {"p1", "p2"}
LoadKinds == {"boards", "columns", "cards"}

\* the records of a table with ids up to n, in ascending key order
RECURSIVE KeyOrder(_, _)
KeyOrder(table, n) ==
    IF n = 0 THEN <<>>
    ELSE KeyOrder(table, n - 1)
         \o (IF \E r \in table : r.id = n
             THEN <<CHOOSE r \in table : r.id = n>> ELSE <<>>)

\* IndexedDBAdapter.getAll without a filter: toArray(), or [] after a failure
adapterGetAll(table, ok) == IF ok THEN KeyOrder(table, NumLoadRecs) ELSE <<>>

\* loadColumns: allColumns.filter(col => col.boardId === boardId)
\*                        .sort((a, b) => a.position - b.position)
loadColumnsResult(allColumns, boardId) ==
    SortByPosition(SelectSeq(allColumns, LAMBDA c : c.parent = boardId))

\* loadCards: allCards.filter(card => columnIds.includes(card.columnId))
loadCardsResult(allCards, columnIds) ==
    SelectSeq(allCards, LAMBDA c : c.parent \in columnIds)

LoadIdleTask == [pc |-> "idle"]

\* a table of the store: records with distinct ids, a parent id (boardId of
\* a column, columnId of a card) and a position
LoadInit ==
    /\ ld_kind \in LoadKinds
    /\ \E ids \in SUBSET LoadIds :
         \E par \in [ids -> LoadParents], pos \in [ids -> 0..MaxLoadPos] :
           ld_db = {[id |-> i, parent |-> par[i], position |-> pos[i]] : i \in ids}
    /\ ld_items = <<>>
    /\ ld_initialized = FALSE
    /\ ld_loading = FALSE
    /\ ld_task = [t \in LoadTasks |-> LoadIdleTask]
    /\ ld_fullLoads = 0
    /\ ld_faults = 0
    /\ ld_last = [op |-> "none"]
    /\ ld_timer = {}
    /\ ld_added = {}
    /\ ld_saves = <<>>
    /\ LoadFrameIdle

\* init() is called: returns at once when initialized, else sets loading
\* and awaits storageService.init()
LoadCallInit ==
    \E t \in LoadTasks :
      /\ ld_task[t].pc = "idle"
      /\ IF ld_initialized
         THEN /\ ld_task' = [ld_task EXCEPT ![t] = [pc |-> "done", op |-> "init"]]
              /\ ld_last' = [op |-> "init", task |-> t, loaded |-> FALSE]
              /\ UNCHANGED ld_loading
         ELSE /\ ld_task' = [ld_task EXCEPT ![t] = [pc |-> "wait_init", op |-> "init"]]
              /\ ld_loading' = TRUE
              /\ UNCHANGED ld_last
      /\ UNCHANGED <<ld_kind, ld_db, ld_items, ld_initialized, ld_fullLoads,
                     ld_faults>>
      /\ UNCHANGED <<ld_timer, ld_added, ld_saves>>
      /\ UNCHANGED loadFrame

\* loadColumns(boardId) / loadCards(columnIds) is called
LoadCallLoad ==
    \E t \in LoadTasks, scope \in (SUBSET LoadParents) \ {{}} :
      /\ ld_task[t].pc = "idle"
      /\ ld_kind \in {"columns", "cards"}
      /\ ld_kind = "columns" => Cardinality(scope) = 1
      /\ ld_task' = [ld_task EXCEPT
                       ![t] = [pc |-> "wait_init", op |-> "load", scope |-> scope,
                               n |-> Cardinality({u \in LoadTasks :
                                                    ld_task[u].pc # "idle"}) + 1]]
      /\ ld_loading' = TRUE
      /\ UNCHANGED <<ld_kind, ld_db, ld_items, ld_initialized, ld_fullLoads,
                     ld_faults, ld_last>>
      /\ UNCHANGED <<ld_timer, ld_added, ld_saves>>
      /\ UNCHANGED loadFrame

\* `await storageService.init()` resolves: the call issues
\* storageService.getAll(store)
LoadStorageReady ==
    \E t \in LoadTasks :
      /\ ld_task[t].pc = "wait_init"
      /\ ld_task' = [ld_task EXCEPT ![t].pc = "wait_getAll"]
      /\ ld_fullLoads' = ld_fullLoads + (IF ld_task[t].op = "init" THEN 1 ELSE 0)
      /\ UNCHANGED <<ld_kind, ld_db, ld_items, ld_initialized, ld_loading,
                     ld_faults, ld_last>>
      /\ UNCHANGED <<ld_timer, ld_added, ld_saves>>
      /\ UNCHANGED loadFrame

\* getAll resolves in an init() call
LoadInitCompletes ==
    \E t \in LoadTasks, ok \in BOOLEAN :
      /\ ld_task[t].pc = "wait_getAll" /\ ld_task[t].op = "init"
      /\ ld_faults + (IF ok THEN 0 ELSE 1) <= MaxLoadFaults
      /\ ld_items' = adapterGetAll(ld_db, ok)
      /\ ld_initialized' = TRUE
      /\ ld_loading' = FALSE
      /\ ld_task' = [ld_task EXCEPT ![t].pc = "done"]
      /\ ld_faults' = ld_faults + (IF ok THEN 0 ELSE 1)
      /\ ld_last' = [op |-> "init", task |-> t, loaded |-> TRUE]
      /\ UNCHANGED <<ld_kind, ld_db, ld_fullLoads>>
      /\ UNCHANGED <<ld_timer, ld_added, ld_saves>>
      /\ UNCHANGED loadFrame

\* getAll resolves in a loadColumns / loadCards call
LoadLoadCompletes ==
    \E t \in LoadTasks, ok \in BOOLEAN :
      /\ ld_task[t].pc = "wait_getAll" /\ ld_task[t].op = "load"
      /\ ld_faults + (IF ok THEN 0 ELSE 1) <= MaxLoadFaults
      /\ ld_items' =
           IF ld_kind = "columns"
           THEN loadColumnsResult(adapterGetAll(ld_db, ok),
                                  CHOOSE p \in ld_task[t].scope : TRUE)
           ELSE loadCardsResult(adapterGetAll(ld_db, ok), ld_task[t].scope)
      /\ ld_loading' = FALSE
      /\ ld_task' = [ld_task EXCEPT ![t].pc = "done"]
      /\ ld_faults' = ld_faults + (IF ok THEN 0 ELSE 1)
      /\ ld_last' = [op |-> "load", task |-> t, scope |-> ld_task[t].scope,
                     ok |-> ok]
      /\ UNCHANGED <<ld_kind, ld_db, ld_initialized, ld_fullLoads>>
      /\ UNCHANGED <<ld_timer, ld_added, ld_saves>>
      /\ UNCHANGED loadFrame

\* the ids of the records in memory, in the table or given out before
LoadIdsUsed ==
    {r.id : r \in ld_db} \cup {ld_items[k].id : k \in 1..Len(ld_items)}
        \cup {a.rec.id : a \in ld_added}

\* an init() call is between its first await and its set(...)
LoadInitAwaiting ==
    \E t \in LoadTasks :
        ld_task[t].pc \in {"wait_init", "wait_getAll"} /\ ld_task[t].op = "init"

\* addCard / addColumn / addBoard with a record made by the caller under a
\* fresh id: appended in memory, its save scheduled
LoadCallAdd ==
    \E id \in LoadIds \ LoadIdsUsed, par \in LoadParents, pos \in 0..MaxLoadPos :
      LET rec == [id |-> id, parent |-> par, position |-> pos]
      IN /\ ld_items' = Append(ld_items, rec)
         /\ ld_timer' = {rec}
         /\ ld_added' = ld_added \cup {[rec |-> rec, duringInit |-> LoadInitAwaiting]}
         /\ ld_last' = [op |-> "add", rec |-> rec]
         /\ UNCHANGED <<ld_kind, ld_db, ld_initialized, ld_loading, ld_task,
                        ld_fullLoads, ld_faults, ld_saves>>
         /\ UNCHANGED loadFrame

\* the debounce delay elapses: the callback awaits storageService.save of
\* the scheduled record
LoadTimerFires ==
    \E rec \in ld_timer :
      /\ ld_saves' = Append(ld_saves, rec)
      /\ ld_timer' = {}
      /\ UNCHANGED <<ld_kind, ld_db, ld_items, ld_initialized, ld_loading,
                     ld_task, ld_fullLoads, ld_faults, ld_last, ld_added>>
      /\ UNCHANGED loadFrame

\* the oldest save settles: the put wrote the record, or it failed and the
\* adapter returned false, which the callback does not read
LoadSaveSettles ==
    \E ok \in BOOLEAN :
      /\ ld_saves # <<>>
      /\ ld_faults + (IF ok THEN 0 ELSE 1) <= MaxLoadFaults
      /\ LET rec == Head(ld_saves)
         IN ld_db' = IF ok THEN {r \in ld_db : r.id # rec.id} \cup {rec}
                     ELSE ld_db
      /\ ld_saves' = Tail(ld_saves)
      /\ ld_faults' = ld_faults + (IF ok THEN 0 ELSE 1)
      /\ UNCHANGED <<ld_kind, ld_items, ld_initialized, ld_loading, ld_task,
                     ld_fullLoads, ld_last, ld_timer, ld_added>>
      /\ UNCHANGED loadFrame

\* setLoading(loading) of a store: set({ loading })
LoadSetLoading ==
    \E loading \in BOOLEAN :
      /\ ld_loading' = loading
      /\ UNCHANGED <<ld_kind, ld_db, ld_items, ld_initialized, ld_task,
                     ld_fullLoads, ld_faults, ld_last, ld_timer, ld_added,
                     ld_saves>>
      /\ UNCHANGED loadFrame

LoadNext ==
    \/ LoadSetLoading
    \/ LoadCallInit
    \/ LoadCallLoad
    \/ LoadStorageReady
    \/ LoadInitCompletes
    \/ LoadLoadCompletes
    \/ LoadCallAdd
    \/ LoadTimerFires
    \/ LoadSaveSettles

SpecLoad == LoadInit /\ [][LoadNext]_vars

\* C25: whatever init() calls are made on a store, overlapping or not, the
\* full collection is requested from the Storage Service at most once.
C25_InitLoadsOnce == ld_fullLoads <= 1

\* C26: when loadColumns(boardId) / loadCards(columnIds) has completed with
\* its getAll succeeding, the in-memory collection holds exactly the stored
\* records whose parent id is in the requested scope, each once, in
\* ascending order of position.
C26_LoadGivesSortedScope ==
    (ld_last.op = "load" /\ ld_last.ok)
        => /\ {ld_items[k] : k \in 1..Len(ld_items)}
                = {r \in ld_db : r.parent \in ld_last.scope}
           /\ Len(ld_items) = Cardinality({r \in ld_db : r.parent \in ld_last.scope})
           /\ \A i, j \in 1..Len(ld_items) :
                 i < j => ld_items[i].position <= ld_items[j].position

\* C37: a record added with the store's add operation while init() was
\* awaiting storage is in the in-memory collection when init() has
\* completed.
C37_AddSurvivesInit ==
    (ld_last.op = "init" /\ ld_last.loaded)
        => \A a \in ld_added :
              a.duringInit => \E k \in 1..Len(ld_items) : ld_items[k] = a.rec

\* C38: loadColumns(b1) and then loadColumns(b2) were called and their
\* reads have completed, in either order, without a failure: when the
\* second of the reads completes, the in-memory columns are those of b2
\* and the loading flag is false.
C38_LastRequestedBoardWins ==
    [][(/\ ld_kind = "columns"
        /\ ld_faults' = 0 /\ ld_added = {}
        /\ \E t \in LoadTasks : ld_task[t].pc # "done"
        /\ \A t \in LoadTasks : ld_task'[t].pc = "done" /\ ld_task'[t].op = "load")
          => LET last == CHOOSE t \in LoadTasks :
                            \A u \in LoadTasks : ld_task'[u].n <= ld_task'[t].n
             IN /\ ld_items' = loadColumnsResult(KeyOrder(ld_db', NumLoadRecs),
                                                 CHOOSE b \in ld_task'[last].scope : TRUE)
                /\ ~ld_loading']_vars

\* C33: a store never has more than one debounce timer pending: every
\* schedule call clears the pending timer before it sets a new one, so the
\* schedule calls made since the last firing are followed by exactly one
\* pending timer, and when it has fired none is left.
C33_OneTimerPerStore ==
    /\ Cardinality(cs_timers) <= 1
    /\ (cs_burst # <<>>) <=> (cs_timers # {})
    /\ \A t \in cs_timers : t.id = cs_timeoutId /\ t.data = cs_burst[Len(cs_burst)].rec

\* three schedule calls in one window were followed by one firing, which
\* issued one save and left no timer pending
C33_Witness ==
    /\ cs_lastFired.timer # 0
    /\ Len(cs_lastFired.burst) = 3
    /\ cs_burst = <<>> /\ cs_timers = {}
    /\ Len(cs_saves) = cs_lastFired.savesBefore + 1
    /\ cs_saves[Len(cs_saves)] = cs_lastFired.burst[3].rec

(***************************************************************************)
(* Store updates with any partial object (stores/cardStore.js updateCard   *)
(* and batchUpdateCards; updateColumn and updateBoard have updateCard's    *)
(* shape), followed to the debounced save.                                 *)
(***************************************************************************)
UpdIds == 1..NumUpdRecs

\* the partial objects over the fields id and position
PartialUpdates ==
    {[position |-> p] : p \in 0..MaxPos}
    \cup {[id |-> i] : i \in UpdIds}
    \cup {[id |-> i, position |-> p] : i \in UpdIds, p \in 0..MaxPos}

\* index of the first record with the id, 0 if none (Array.prototype.find)
FindIndexById(s, id) ==
    IF \E k \in 1..Len(s) : s[k].id = id
    THEN CHOOSE k \in 1..Len(s) : s[k].id = id /\ \A j \in 1..(k - 1) : s[j].id # id
    ELSE 0

\* indexes of the records batchUpdateCards hands to debouncedPersist, in
\* array order
BatchIndexes(cards, cardUpdates) ==
    SelectSeq([k \in 1..Len(cards) |-> k],
              LAMBDA k : cards[k].id \in DOMAIN cardUpdates)

\* records created with ids 1..n.  Either they were saved and the store's
\* StorageService is initialized, or the store is new this session: the
\* records were added one after the other, the debounce timer holds the
\* last one, nothing was saved yet and the service was never used
UpdInit ==
    /\ \E n \in 1..NumUpdRecs, pos \in [UpdIds -> 0..MaxPos] :
         up_cards = [k \in 1..n |-> [id |-> k, position |-> pos[k], updatedAt |-> 0]]
    /\ up_orig = [k \in 1..Len(up_cards) |-> k]
    /\ up_initialized \in BOOLEAN
    /\ up_db = IF up_initialized THEN up_cards ELSE <<>>
    /\ up_timer = IF up_initialized THEN {}
                  ELSE {[data |-> up_cards[Len(up_cards)], of |-> Len(up_cards)]}
    /\ up_dbs = IF up_initialized THEN <<"open">> ELSE <<>>
    /\ up_opens = <<>>
    /\ up_queue = <<>>
    /\ up_faults = 0
    /\ up_written = <<>>
    /\ up_calls = 0
    /\ UpdFrameIdle

\* updateCard(cardId, updates)
UpdUpdateCard ==
    \E cardId \in UpdIds, updates \in PartialUpdates :
      /\ up_calls < MaxUpdCalls
      /\ LET updatedCards == storeUpdateCards(up_cards, cardId, updates, up_calls + 1)
             found == FindIndexById(updatedCards, cardId)
         IN /\ up_cards' = updatedCards
            /\ up_timer' = IF found # 0
                           THEN {[data |-> updatedCards[found], of |-> found]}
                           ELSE up_timer
      /\ up_calls' = up_calls + 1
      /\ UNCHANGED <<up_orig, up_db, up_written, up_initialized, up_dbs,
                     up_opens, up_queue, up_faults>>
      /\ UNCHANGED updFrame

\* batchUpdateCards(cardUpdates) with updates for at most two cards in memory
UpdBatchUpdateCards ==
    \E ids \in {x \in SUBSET {up_cards[k].id : k \in 1..Len(up_cards)} :
                   Cardinality(x) \in 1..2} :
      \E cardUpdates \in [ids -> PartialUpdates] :
        /\ up_calls < MaxUpdCalls
        /\ LET updatedCards == storeBatchUpdateCards(up_cards, cardUpdates, up_calls + 1)
               handed == BatchIndexes(up_cards, cardUpdates)
           IN /\ up_cards' = updatedCards
              /\ up_timer' = IF handed # <<>>
                             THEN {[data |-> updatedCards[handed[Len(handed)]],
                                    of |-> handed[Len(handed)]]}
                             ELSE up_timer
        /\ up_calls' = up_calls + 1
        /\ UNCHANGED <<up_orig, up_db, up_written, up_initialized, up_dbs,
                       up_opens, up_queue, up_faults>>
        /\ UNCHANGED updFrame

UpdOutcomes == IF up_faults < MaxUpdFaults THEN BOOLEAN ELSE {TRUE}

\* the debounce delay elapses: the callback awaits storageService.save of
\* the timer's record, which runs to its first pending await.  Initialized:
\* ensureInitialized() returns and adapter.save makes the put on this.db.
\* Not initialized: init() has the adapter make a new Dexie instance and
\* open it, and the save waits for the open.
UpdTimerFires ==
    \E t \in up_timer :
      /\ up_timer' = {}
      /\ IF up_initialized
         THEN /\ up_queue' = Append(up_queue,
                                [data |-> t.data, of |-> t.of, db |-> Len(up_dbs)])
              /\ UNCHANGED <<up_dbs, up_opens>>
         ELSE /\ up_dbs' = Append(up_dbs, "opening")
              /\ up_opens' = Append(up_opens,
                                [data |-> t.data, of |-> t.of, db |-> Len(up_dbs) + 1])
              /\ UNCHANGED up_queue
      /\ UNCHANGED <<up_cards, up_orig, up_db, up_written, up_calls,
                     up_initialized, up_faults>>
      /\ UNCHANGED updFrame

\* the oldest open settles: this.initialized = its result, ensureInitialized
\* and save resume and the put is made on this.db, the newest instance
UpdInitSettles ==
    \E ok \in UpdOutcomes :
      /\ up_opens # <<>>
      /\ LET o == Head(up_opens)
         IN /\ up_dbs' = [up_dbs EXCEPT ![o.db] = IF ok THEN "open" ELSE "failed"]
            /\ up_queue' = Append(up_queue, [o EXCEPT !.db = Len(up_dbs)])
      /\ up_opens' = Tail(up_opens)
      /\ up_initialized' = ok
      /\ up_faults' = IF ok THEN up_faults ELSE up_faults + 1
      /\ UNCHANGED <<up_cards, up_orig, up_db, up_timer, up_written, up_calls>>
      /\ UNCHANGED updFrame

\* the oldest put settles, once the instance it was made on has finished
\* opening; it fails on an instance that did not open.  A put that fails
\* leaves the table alone: adapter.save returns false, which the timer
\* callback does not read.
UpdPutSettles ==
    \E ok \in UpdOutcomes :
      /\ up_queue # <<>>
      /\ LET q == Head(up_queue)
             done == ok /\ up_dbs[q.db] = "open"
         IN /\ up_dbs[q.db] # "opening"
            /\ up_db' = IF done THEN DbPut(up_db, q.data) ELSE up_db
            /\ up_written' = IF done
                             THEN Append(up_written, [data |-> q.data, of |-> q.of])
                             ELSE up_written
      /\ up_queue' = Tail(up_queue)
      /\ up_faults' = IF ok THEN up_faults ELSE up_faults + 1
      /\ UNCHANGED <<up_cards, up_orig, up_timer, up_calls, up_initialized,
                     up_dbs, up_opens>>
      /\ UNCHANGED updFrame

UpdNext ==
    \/ UpdUpdateCard
    \/ UpdBatchUpdateCards
    \/ UpdTimerFires
    \/ UpdInitSettles
    \/ UpdPutSettles

SpecUpdate == UpdInit /\ [][UpdNext]_vars

\* C27: after any updates with any partial objects, every in-memory record
\* has the id it was created with, and every record the store has saved
\* carries the id its in-memory record was created with.
C27_IdImmutable ==
    /\ \A k \in 1..Len(up_cards) : up_cards[k].id = up_orig[k]
    /\ \A k \in 1..Len(up_written) : up_written[k].data.id = up_orig[up_written[k].of]

(***************************************************************************)
(* Full-board JSON document: ExportService.exportToJSON                    *)
(* (services/search/SearchService.js) and ImportService.importFromJSON     *)
(* (services/import/ImportService.js).  A property read is <<v>> for a     *)
(* value v and <<>> for undefined; the text of an object is the set of its *)
(* entries (the document is read by property, never listed in order).      *)
(***************************************************************************)
\* the fields of the data model
ModelBoardFields ==
    {"id", "title", "description", "columnOrder", "starred", "backgroundColor",
     "archived", "createdAt", "updatedAt"}
ModelColumnFields ==
    {"id", "boardId", "title", "cardOrder", "position", "color", "cardLimit",
     "createdAt", "updatedAt"}
ModelCardFields ==
    {"id", "columnId", "title", "description", "position", "priority",
     "dueDate", "labels", "tags", "createdAt", "updatedAt"}

\* the properties the export's object literals name
ExportBoardFields ==
    {"id", "name", "description", "createdAt", "updatedAt", "starred", "archived"}
ExportColumnFields == {"id", "name", "position", "color"}
ExportCardFields ==
    {"id", "columnId", "title", "description", "position", "priority",
     "dueDate", "labels", "tags", "createdAt", "updatedAt"}

\* obj.f
ReadProp(obj, f) == IF f \in DOMAIN obj THEN <<obj[f]>> ELSE <<>>

\* the object literal { f: obj.f, ... } for the fields named
ObjectLiteral(obj, fields) == [f \in fields |-> ReadProp(obj, f)]

\* JSON.stringify of such an object: properties whose value is undefined
\* are left out
JSONStringifyObject(o) == {<<f, o[f][1]>> : f \in {g \in DOMAIN o : o[g] # <<>>}}

\* ExportService.exportToJSON: the document text
exportToJSON(board, columns, cards) ==
    [version |-> "1.0",
     exportedAt |-> "now",
     board |-> JSONStringifyObject(ObjectLiteral(board, ExportBoardFields)),
     columns |-> [k \in 1..Len(columns) |->
                    JSONStringifyObject(ObjectLiteral(columns[k], ExportColumnFields))],
     cards |-> [k \in 1..Len(cards) |->
                  JSONStringifyObject(ObjectLiteral(cards[k], ExportCardFields))]]

\* JSON.parse of the text of one object
JSONParseObject(text) ==
    [k \in {e[1] : e \in text} |-> (CHOOSE e \in text : e[1] = k)[2]]

\* JSON.parse of the document text
JSONParseDocument(text) ==
    [version |-> text.version,
     exportedAt |-> text.exportedAt,
     board |-> JSONParseObject(text.board),
     columns |-> [k \in 1..Len(text.columns) |-> JSONParseObject(text.columns[k])],
     cards |-> [k \in 1..Len(text.cards) |-> JSONParseObject(text.cards[k])]]

\* ImportService.validateJSONStructure: the message of the error it throws,
\* "ok" if it returns (board, columns and cards are there in every exported
\* document)
validateJSONStructure(data) ==
    IF data.version = ""
    THEN "Missing version field"
    ELSE IF ReadProp(data.board, "name") \in {<<>>, <<"">>}
    THEN "Board name is required"
    ELSE "ok"

\* `Failed to import JSON: ${err.message}`
FailedToImport(message) ==
    CASE message = "Missing version field" ->
            "Failed to import JSON: Missing version field"
      [] message = "Board name is required" ->
            "Failed to import JSON: Board name is required"

\* ImportService.importFromJSON: the object returned, or the error thrown:
\* what validateJSONStructure throws is caught and a new error is thrown
importFromJSON(jsonString) ==
    LET data == JSONParseDocument(jsonString)
    IN IF validateJSONStructure(data) # "ok"
       THEN [ok |-> FALSE,
             error |-> FailedToImport(validateJSONStructure(data))]
       ELSE [ok |-> TRUE, board |-> data.board, columns |-> data.columns,
             cards |-> data.cards,
             metadata |-> [version |-> data.version,
                           exportedAt |-> data.exportedAt,
                           importedAt |-> "now"]]

\* a board with the fields of the data model, with or without the property
\* `name`; columns and cards with the fields of the data model
ExpBoards ==
    LET base == [id : {"b1"}, title : {"T1", "T2"}, description : {"d"},
                 columnOrder : {<<>>, <<"c1">>}, starred : BOOLEAN,
                 backgroundColor : {"#fff"}, archived : {FALSE},
                 createdAt : {1}, updatedAt : {2}]
    IN base \cup {Merge(b, [name |-> "N1"]) : b \in base}

ExpColumns ==
    [id : {"c1"}, boardId : {"b1"}, title : {"To Do", "Done"},
     cardOrder : {<<>>}, position : {0}, color : {"#eee"}, cardLimit : {3, 5},
     createdAt : {1}, updatedAt : {2}]

ExpCards ==
    [id : {"k1"}, columnId : {"c1"}, title : {"t"}, description : {"d"},
     position : {0}, priority : {"low", "high"}, dueDate : {0},
     labels : {<<>>, <<[name |-> "bug"]>>}, tags : {<<"x">>},
     createdAt : {1}, updatedAt : {2}]

SeqsUpTo(S, n) == UNION {[1..m -> S] : m \in 0..n}

ExpInit ==
    /\ xp_board \in ExpBoards
    /\ xp_columns \in SeqsUpTo(ExpColumns, NumExpColumns)
    /\ xp_cards \in SeqsUpTo(ExpCards, NumExpCards)
    /\ xp_op = "none"
    /\ xp_out = <<>>
    /\ ExpFrameIdle

ExpExport ==
    /\ xp_op = "none"
    /\ xp_op' = "exportToJSON"
    /\ xp_out' = exportToJSON(xp_board, xp_columns, xp_cards)
    /\ UNCHANGED <<xp_board, xp_columns, xp_cards>>
    /\ UNCHANGED expFrame

ExpRoundTrip ==
    /\ xp_op = "none"
    /\ xp_op' = "roundTrip"
    /\ xp_out' = importFromJSON(exportToJSON(xp_board, xp_columns, xp_cards))
    /\ UNCHANGED <<xp_board, xp_columns, xp_cards>>
    /\ UNCHANGED expFrame

ExpNext == ExpExport \/ ExpRoundTrip

SpecExport == ExpInit /\ [][ExpNext]_vars

\* every field named is in the result with the value it has in the original
SameFields(orig, res, fields) ==
    \A f \in fields : ReadProp(res, f) = <<orig[f]>>

\* C29: importing the export of a board, columns and cards that carry the
\* data model's fields succeeds and gives a board, columns and cards in
\* which every data-model field has its original value.
C29_ExportImportRoundTrip ==
    xp_op = "roundTrip"
        => /\ xp_out.ok
           /\ SameFields(xp_board, xp_out.board, ModelBoardFields)
           /\ Len(xp_out.columns) = Len(xp_columns)
           /\ \A k \in 1..Len(xp_columns) :
                 SameFields(xp_columns[k], xp_out.columns[k], ModelColumnFields)
           /\ Len(xp_out.cards) = Len(xp_cards)
           /\ \A k \in 1..Len(xp_cards) :
                 SameFields(xp_cards[k], xp_out.cards[k], ModelCardFields)

(***************************************************************************)
(* StorageService: every public method awaits ensureInitialized() and then *)
(* delegates to the adapter.  One step per await; calls may overlap in any *)
(* order the event loop allows.                                            *)
(***************************************************************************)

SvcTasks == 1..NumSvcTasks

SvcIds == FirstIds(<<"a", "b", "c">>, NumSvcRecs)

\* predicates handed to query()
SvcPredicates == {"any", "first"}

SvcSatisfies(id, predicate) == predicate = "any" \/ id = "a"

\* the calls a client can make on the service
SvcCalls ==
    [method : {"save", "get", "delete"}, id : SvcIds]
        \cup [method : {"bulkSave"}, ids : SUBSET SvcIds \ {{}}]
        \cup [method : {"getAll", "clear", "init"}]
        \cup [method : {"query"}, predicate : SvcPredicates]

\* the adapter data operation each service method delegates to
AdapterOpOf(method) == IF method = "query" THEN "getAll" ELSE method

\* ensureInitialized(): the await the calling method is parked on
ensureInitialized_SkipInit(initialized) == "svc_wait"

ensureInitialized(initialized) ==
    IF ~initialized THEN "init_wait" ELSE "svc_wait"

\* the adapter behind the service (services/storage/index.js)
SvcKinds == {"local", "indexeddb"}

\* the adapter's data operations on one store; a failed one leaves it alone
svcAdapterTable(tbl, call, ok) ==
    IF ~ok THEN tbl
    ELSE CASE call.method = "save" -> tbl \cup {call.id}
           [] call.method = "delete" -> tbl \ {call.id}
           [] call.method = "bulkSave" -> tbl \cup call.ids
           [] call.method = "clear" -> {}
           [] OTHER -> tbl

\* what the service method returns: ok is the boolean (or non-null) result,
\* ids the records read
svcResult(tbl, call, ok) ==
    CASE call.method = "get" ->
            [ok |-> ok /\ call.id \in tbl,
             ids |-> IF ok THEN tbl \cap {call.id} ELSE {}]
      [] call.method = "getAll" -> [ok |-> TRUE, ids |-> IF ok THEN tbl ELSE {}]
      [] call.method = "query" ->
            [ok |-> TRUE,
             ids |-> IF ok THEN {i \in tbl : SvcSatisfies(i, call.predicate)}
                     ELSE {}]
      [] OTHER -> [ok |-> ok, ids |-> {}]

SvcIdleTask == [pc |-> "idle"]

SvcDoneTask == [pc |-> "done"]

\* the value a call settled with
SvcReturn(call, res) == [method |-> call.method, call |-> call, res |-> res]

SvcOutcomes == IF sv_faults < MaxSvcFaults THEN BOOLEAN ELSE {TRUE}

SvcCountFault(ok) == sv_faults' = IF ok THEN sv_faults ELSE sv_faults + 1

\* the state of the adapter's k-th Dexie instance; before the first
\* adapter.init() `this.db` is null
SvcDbState(k) == IF k = 0 THEN "null" ELSE sv_dbs[k]

SvcInit ==
    /\ sv_kind \in SvcKinds
    /\ sv_dbs = <<>>
    /\ sv_initialized = FALSE
    /\ sv_tbl \in SUBSET SvcIds
    /\ sv_task = [t \in SvcTasks |-> SvcIdleTask]
    /\ sv_initsIssued = 0 /\ sv_initsDone = 0 /\ sv_faults = 0
    /\ sv_lastOp = [method |-> "none"] /\ sv_lastRes = [method |-> "none"]
    /\ SvcFrameIdle

\* StorageService.init() with initialized false calls adapter.init() and
\* awaits it.  LocalStorageAdapter.init probes localStorage before it
\* returns its promise; IndexedDBAdapter.init assigns a new Dexie instance
\* to this.db and awaits its open().
SvcIssueInit(t, c) ==
    /\ sv_initsIssued' = sv_initsIssued + 1
    /\ IF sv_kind = "local"
       THEN \E ok \in SvcOutcomes :
               /\ sv_task' = [sv_task EXCEPT ![t] =
                                [pc |-> "init_wait", call |-> c, ir |-> ok]]
               /\ SvcCountFault(ok)
               /\ UNCHANGED sv_dbs
       ELSE /\ sv_task' = [sv_task EXCEPT ![t] =
                             [pc |-> "init_wait", call |-> c,
                              db |-> Len(sv_dbs) + 1]]
            /\ sv_dbs' = Append(sv_dbs, "opening")
            /\ UNCHANGED sv_faults

\* a client calls init(): returns at once when initialized, else issues
\* adapter.init() and awaits it
SvcCallInit ==
    \E t \in SvcTasks :
        /\ sv_task[t].pc = "idle"
        /\ IF sv_initialized
           THEN /\ sv_task' = [sv_task EXCEPT ![t] = SvcDoneTask]
                /\ sv_lastRes' = SvcReturn([method |-> "init"],
                                           [ok |-> TRUE, ids |-> {}])
                /\ UNCHANGED <<sv_initsIssued, sv_dbs, sv_faults>>
           ELSE /\ SvcIssueInit(t, [method |-> "init"])
                /\ UNCHANGED sv_lastRes
        /\ UNCHANGED <<sv_kind, sv_initialized, sv_tbl, sv_initsDone,
                       sv_lastOp>>
        /\ UNCHANGED svcFrame

\* a client calls a data method: it runs up to its first await
SvcCallMethod ==
    \E t \in SvcTasks, c \in SvcCalls :
        /\ sv_task[t].pc = "idle"
        /\ c.method # "init"
        /\ IF ensureInitialized(sv_initialized) = "init_wait"
           THEN SvcIssueInit(t, c)
           ELSE /\ sv_task' = [sv_task EXCEPT ![t] =
                                 [pc |-> "svc_wait", call |-> c]]
                /\ UNCHANGED <<sv_initsIssued, sv_dbs, sv_faults>>
        /\ UNCHANGED <<sv_kind, sv_initialized, sv_tbl, sv_initsDone,
                       sv_lastOp, sv_lastRes>>
        /\ UNCHANGED svcFrame

\* adapter.init() settles and init() resumes: this.initialized = its result.
\* The open() calls of the Dexie instances settle in the order they were made.
SvcInitResumes ==
    \E t \in SvcTasks, o \in BOOLEAN :
        /\ sv_task[t].pc = "init_wait"
        /\ IF sv_kind = "local"
           THEN /\ o = sv_task[t].ir
                /\ UNCHANGED <<sv_dbs, sv_faults>>
           ELSE /\ o \in SvcOutcomes
                /\ \A u \in SvcTasks :
                      sv_task[u].pc = "init_wait" => sv_task[t].db <= sv_task[u].db
                /\ sv_dbs' = [sv_dbs EXCEPT ![sv_task[t].db] =
                                 IF o THEN "open" ELSE "failed"]
                /\ SvcCountFault(o)
        /\ sv_initialized' = o
        /\ sv_initsDone' = sv_initsDone + 1
        /\ sv_task' = [sv_task EXCEPT ![t] =
                         IF @.call.method = "init"
                         THEN SvcDoneTask
                         ELSE [pc |-> "ensure_wait", call |-> @.call]]
        /\ sv_lastRes' = IF sv_task[t].call.method = "init"
                         THEN SvcReturn(sv_task[t].call,
                                        [ok |-> o, ids |-> {}])
                         ELSE sv_lastRes
        /\ UNCHANGED <<sv_kind, sv_tbl, sv_initsIssued, sv_lastOp>>
        /\ UNCHANGED svcFrame

\* ensureInitialized() resumes after its await of init() and returns
SvcEnsureResumes ==
    \E t \in SvcTasks :
        /\ sv_task[t].pc = "ensure_wait"
        /\ sv_task' = [sv_task EXCEPT ![t] =
                         [pc |-> "svc_wait", call |-> @.call]]
        /\ UNCHANGED <<sv_kind, sv_dbs, sv_initialized, sv_tbl, sv_initsIssued,
                       sv_initsDone, sv_faults, sv_lastOp, sv_lastRes>>
        /\ UNCHANGED svcFrame

\* the method resumes after ensureInitialized() and invokes the adapter.
\* A LocalStorageAdapter method runs up to its await: clear() removes the
\* item, every other method reads the collection in getStoreData, where a
\* read that throws gives the empty object.  An IndexedDBAdapter method
\* makes its request on this.db, the newest Dexie instance.
SvcMethodResumes ==
    \E t \in SvcTasks, ok \in SvcOutcomes :
        /\ sv_task[t].pc = "svc_wait"
        /\ IF sv_kind = "local"
           THEN /\ sv_task' = [sv_task EXCEPT ![t] =
                                 [pc |-> "ad_wait", call |-> @.call,
                                  store |-> IF ok THEN sv_tbl ELSE {},
                                  ok |-> ok]]
                /\ sv_tbl' = IF sv_task[t].call.method = "clear"
                             THEN svcAdapterTable(sv_tbl, sv_task[t].call, ok)
                             ELSE sv_tbl
                /\ SvcCountFault(ok)
           ELSE /\ ok
                /\ sv_task' = [sv_task EXCEPT ![t] =
                                 [pc |-> "ad_wait", call |-> @.call,
                                  db |-> Len(sv_dbs)]]
                /\ UNCHANGED <<sv_tbl, sv_faults>>
        /\ sv_lastOp' = [method |-> sv_task[t].call.method,
                         op |-> AdapterOpOf(sv_task[t].call.method),
                         initsIssued |-> sv_initsIssued,
                         initsDone |-> sv_initsDone,
                         initialized |-> sv_initialized]
        /\ UNCHANGED <<sv_kind, sv_dbs, sv_initialized, sv_initsIssued,
                       sv_initsDone, sv_lastRes>>
        /\ UNCHANGED svcFrame

\* the LocalStorageAdapter method resumes after its await: get, getAll and
\* query answer from the collection read when the method was called; save,
\* delete and bulkSave change that collection and write it back whole,
\* which may throw; clear returns what removeItem gave
SvcLocalResumes(t, ok) ==
    LET me == sv_task[t]
        reads == me.call.method \in {"get", "getAll", "query"}
    IN /\ (reads \/ me.call.method = "clear") => ok
       /\ sv_tbl' = IF reads \/ me.call.method = "clear" \/ ~ok
                    THEN sv_tbl
                    ELSE svcAdapterTable(me.store, me.call, TRUE)
       /\ SvcCountFault(ok)
       /\ sv_lastRes' =
             SvcReturn(me.call,
                       IF reads THEN svcResult(me.store, me.call, TRUE)
                       ELSE IF me.call.method = "clear"
                            THEN [ok |-> me.ok, ids |-> {}]
                            ELSE [ok |-> ok, ids |-> {}])

\* the Dexie request settles: it is held while its instance is opening, is
\* rejected when the instance failed to open or `this.db` was null, and
\* otherwise takes effect now or fails
SvcDexieSettles(t, ok) ==
    LET me == sv_task[t]
        open == SvcDbState(me.db) = "open"
    IN /\ SvcDbState(me.db) # "opening"
       /\ ~open => ok
       /\ sv_tbl' = svcAdapterTable(sv_tbl, me.call, open /\ ok)
       /\ SvcCountFault(ok)
       /\ sv_lastRes' = SvcReturn(me.call, svcResult(sv_tbl, me.call, open /\ ok))

\* the adapter's data operation settles and the method returns its result
SvcAdapterResumes ==
    \E t \in SvcTasks, ok \in SvcOutcomes :
        /\ sv_task[t].pc = "ad_wait"
        /\ IF sv_kind = "local"
           THEN SvcLocalResumes(t, ok)
           ELSE SvcDexieSettles(t, ok)
        /\ sv_task' = [sv_task EXCEPT ![t] = SvcDoneTask]
        /\ UNCHANGED <<sv_kind, sv_dbs, sv_initialized, sv_initsIssued,
                       sv_initsDone, sv_lastOp>>
        /\ UNCHANGED svcFrame

SvcNext ==
    \/ SvcCallInit
    \/ SvcCallMethod
    \/ SvcInitResumes
    \/ SvcEnsureResumes
    \/ SvcMethodResumes
    \/ SvcAdapterResumes

SpecService == SvcInit /\ [][SvcNext]_vars

\* C30: whenever a service method (save, get, getAll, delete, bulkSave,
\* clear, query) invokes its adapter data operation, the service has already
\* issued an adapter.init() call and that call has settled; so no adapter
\* data operation starts before initialization has been attempted, and no
\* call is past its ensureInitialized() await before then either.
C30_InitBeforeDataOperation ==
    /\ sv_lastOp.method # "none"
           => (sv_lastOp.initsIssued >= 1 /\ sv_lastOp.initsDone >= 1)
    /\ \A t \in DOMAIN sv_task :
           sv_task[t].pc \in {"svc_wait", "ad_wait"} => sv_initsDone >= 1

\* a query issued while another call's adapter.init() was still in flight:
\* both calls issued an init, and the query reached adapter.getAll only
\* after one had settled
C30_Witness ==
    /\ sv_lastOp.method = "query" /\ sv_lastOp.op = "getAll"
    /\ sv_lastOp.initsIssued = 2 /\ sv_lastOp.initsDone >= 1
    /\ \E t \in DOMAIN sv_task :
           sv_task[t].pc = "ad_wait" /\ sv_task[t].call.method = "query"

(***************************************************************************)
(* Card store moveCard (stores/cardStore.js): one updateCard of the moved  *)
(* card, followed to the debounced save.                                   *)
(***************************************************************************)
MoveIds == 1..NumMoveCards

\* stores in which every column's cards have the positions 0..n-1: each
\* card was added to a column and the column's order is any order
MoveStores ==
    {cards \in UNION {{[k \in 1..n |-> [id |-> k, columnId |-> col[k],
                                        position |-> pos[k], updatedAt |-> 0]] :
                          col \in [1..n -> ColIds], pos \in [1..n -> 0..(n - 1)]} :
                      n \in 1..NumMoveCards} :
        \A c \in ColIds : Contiguous(cards, c)}

\* moveCard: get().updateCard(cardId, { columnId: targetColumnId, position })
storeMoveCard(cards, cardId, targetColumnId, position, now) ==
    storeUpdateCards(cards, cardId,
                     [columnId |-> targetColumnId, position |-> position], now)

\* either the cards were loaded from the table and the store's
\* StorageService is initialized, or the store is new this session: the
\* cards were added one after the other, the debounce timer holds the last
\* one, nothing was saved yet and the service was never used
MoveInit ==
    /\ mv_cards \in MoveStores
    /\ mv_initialized \in BOOLEAN
    /\ mv_db = IF mv_initialized THEN mv_cards ELSE <<>>
    /\ mv_timer = IF mv_initialized THEN {} ELSE {mv_cards[Len(mv_cards)]}
    /\ mv_dbs = IF mv_initialized THEN <<"open">> ELSE <<>>
    /\ mv_opens = <<>>
    /\ mv_queue = <<>>
    /\ mv_faults = 0
    /\ mv_calls = 0
    /\ mv_last = [op |-> "none"]
    /\ MoveFrameIdle

\* moveCard(cardId, targetColumnId, position) for a card in memory and an
\* insertion index of the target column
MoveMoveCard ==
    \E k \in 1..Len(mv_cards), targetColumnId \in ColIds :
      \E position \in 0..Len(ColumnFilter(mv_cards, targetColumnId)) :
        /\ mv_calls < MaxMoveCalls
        /\ LET cardId == mv_cards[k].id
               updatedCards == storeMoveCard(mv_cards, cardId, targetColumnId,
                                             position, mv_calls + 1)
               updatedCard == FindById(updatedCards, cardId)
           IN /\ mv_cards' = updatedCards
              /\ mv_timer' = IF updatedCard # Undefined
                             THEN {updatedCard} ELSE mv_timer
              /\ mv_last' = [op |-> "moveCard", id |-> cardId,
                             source |-> mv_cards[k].columnId,
                             target |-> targetColumnId, position |-> position,
                             before |-> mv_cards]
        /\ mv_calls' = mv_calls + 1
        /\ UNCHANGED <<mv_db, mv_initialized, mv_dbs, mv_opens, mv_queue,
                       mv_faults>>
        /\ UNCHANGED moveFrame

MoveOutcomes == IF mv_faults < MaxMoveFaults THEN BOOLEAN ELSE {TRUE}

\* the debounce delay elapses: the callback awaits storageService.save of
\* the timer's record, which runs to its first pending await: the put on
\* this.db when the service is initialized, else the open of a new Dexie
\* instance
MoveTimerFires ==
    \E data \in mv_timer :
        /\ mv_timer' = {}
        /\ IF mv_initialized
           THEN /\ mv_queue' = Append(mv_queue,
                                   [data |-> data, db |-> Len(mv_dbs)])
                /\ UNCHANGED <<mv_dbs, mv_opens>>
           ELSE /\ mv_dbs' = Append(mv_dbs, "opening")
                /\ mv_opens' = Append(mv_opens,
                                   [data |-> data, db |-> Len(mv_dbs) + 1])
                /\ UNCHANGED mv_queue
        /\ UNCHANGED <<mv_cards, mv_db, mv_calls, mv_last, mv_initialized,
                       mv_faults>>
        /\ UNCHANGED moveFrame

\* the oldest open settles: this.initialized = its result, and the put is
\* made on this.db, the newest instance
MoveInitSettles ==
    \E ok \in MoveOutcomes :
        /\ mv_opens # <<>>
        /\ LET o == Head(mv_opens)
           IN /\ mv_dbs' = [mv_dbs EXCEPT ![o.db] =
                               IF ok THEN "open" ELSE "failed"]
              /\ mv_queue' = Append(mv_queue, [o EXCEPT !.db = Len(mv_dbs)])
        /\ mv_opens' = Tail(mv_opens)
        /\ mv_initialized' = ok
        /\ mv_faults' = IF ok THEN mv_faults ELSE mv_faults + 1
        /\ UNCHANGED <<mv_cards, mv_db, mv_timer, mv_calls, mv_last>>
        /\ UNCHANGED moveFrame

\* the oldest put settles, once the instance it was made on has finished
\* opening; it fails on an instance that did not open, and a put that
\* fails leaves the table alone
MovePutSettles ==
    \E ok \in MoveOutcomes :
        /\ mv_queue # <<>>
        /\ LET q == Head(mv_queue)
           IN /\ mv_dbs[q.db] # "opening"
              /\ mv_db' = IF ok /\ mv_dbs[q.db] = "open"
                          THEN DbPut(mv_db, q.data) ELSE mv_db
        /\ mv_queue' = Tail(mv_queue)
        /\ mv_faults' = IF ok THEN mv_faults ELSE mv_faults + 1
        /\ UNCHANGED <<mv_cards, mv_timer, mv_calls, mv_last, mv_initialized,
                       mv_dbs, mv_opens>>
        /\ UNCHANGED moveFrame

MoveNext ==
    \/ MoveMoveCard
    \/ MoveTimerFires
    \/ MoveInitSettles
    \/ MovePutSettles

SpecMove == MoveInit /\ [][MoveNext]_vars

\* C31: after the card store's moveCard on a store whose columns all had
\* contiguous positions, the positions of the cards of the source column
\* and of the target column are each exactly 0..n-1 with no duplicates.
C31_MoveKeepsContiguous ==
    (/\ mv_last.op = "moveCard"
     /\ \A c \in ColIds : Contiguous(mv_last.before, c))
        => (/\ Contiguous(mv_cards, mv_last.source)
            /\ Contiguous(mv_cards, mv_last.target))

(***************************************************************************)
(* dragUtils and DragDropService.reorderItems / moveItem on the heap:      *)
(* arrays and objects are held by reference, Array.from and map allocate,  *)
(* splice changes the array it is called on.                               *)
(***************************************************************************)
\* the heap: arrays and objects, a reference is an index
Heap == [arrays |-> hp_arrays, objs |-> hp_objs]

\* Array.from(list): a new array with the same elements
ArrayFrom_SameArray(h, list) == [heap |-> h, ref |-> list]

ArrayFrom(h, list) ==
    [heap |-> [h EXCEPT !.arrays = Append(@, @[list])],
     ref |-> Len(h.arrays) + 1]

\* const [removed] = a.splice(start, 1): a loses the element, removed is it
\* (0, undefined, when nothing was removed)
heapSpliceOut(h, a, start) ==
    [heap |-> [h EXCEPT !.arrays[a] = SpliceRemove(@, start)],
     removed |-> IF start < Len(h.arrays[a]) THEN h.arrays[a][start + 1] ELSE 0]

\* a.splice(start, 0, item)
heapSpliceIn(h, a, start, item) ==
    [h EXCEPT !.arrays[a] = SpliceInsert(@, start, item)]

\* dragUtils.reorder
heapReorder(h, list, startIndex, endIndex) ==
    LET result == ArrayFrom(h, list)
        out == heapSpliceOut(result.heap, result.ref, startIndex)
    IN [heap |-> heapSpliceIn(out.heap, result.ref, endIndex, out.removed),
        ref |-> result.ref]

\* dragUtils.move
heapMove(h, source, destination, sourceIndex, destinationIndex) ==
    LET sourceClone == ArrayFrom(h, source)
        destClone == ArrayFrom(sourceClone.heap, destination)
        out == heapSpliceOut(destClone.heap, sourceClone.ref, sourceIndex)
    IN [heap |-> heapSpliceIn(out.heap, destClone.ref, destinationIndex,
                              out.removed),
        source |-> sourceClone.ref,
        destination |-> destClone.ref]

\* dragUtils.updatePositions: items.map((item, index) => ({...item,
\* position: index})), a new array of new objects
heapUpdatePositions(h, items) ==
    LET arr == h.arrays[items]
        made == [k \in 1..Len(arr) |->
                    Merge(IF arr[k] = 0 THEN Undefined ELSE h.objs[arr[k]],
                          [position |-> k - 1])]
    IN [heap |-> [arrays |-> Append(h.arrays,
                                    [k \in 1..Len(arr) |-> Len(h.objs) + k]),
                  objs |-> h.objs \o made],
        ref |-> Len(h.arrays) + 1]

\* DragDropService.reorderItems
heapReorderItems(h, items, sourceIndex, destinationIndex) ==
    LET reordered == heapReorder(h, items, sourceIndex, destinationIndex)
    IN heapUpdatePositions(reordered.heap, reordered.ref)

\* DragDropService.moveItem
heapMoveItem(h, sourceItems, destItems, sourceIndex, destinationIndex) ==
    LET m == heapMove(h, sourceItems, destItems, sourceIndex, destinationIndex)
        src == heapUpdatePositions(m.heap, m.source)
        dst == heapUpdatePositions(src.heap, m.destination)
    IN [heap |-> dst.heap, source |-> src.ref, destination |-> dst.ref]

\* the records an array holds, in order (heap objects of live references)
Deref(arrays, objs, a) ==
    [k \in 1..Len(arrays[a]) |-> objs[arrays[a][k]]]

\* two arrays of records on the heap and the arguments of a call; the
\* destination argument may be the same array as the source
HeapInit ==
    /\ \E items \in ItemSeqs(SrcIds, NumCards),
          dest \in ItemSeqs(DstIds, NumDestCards) :
         /\ hp_objs = items \o dest
         /\ hp_arrays = <<[k \in 1..Len(items) |-> k],
                          [k \in 1..Len(dest) |-> Len(items) + k]>>
    /\ hp_args \in [list : {1}, dest : {1, 2},
                    si : 0..NumCards, di : 0..NumCards]
    /\ hp_pre = Heap
    /\ hp_op = "none"
    /\ hp_ret = <<>>
    /\ HeapFrameIdle

HeapSet(op, h, ret) ==
    /\ hp_op = "none"
    /\ hp_op' = op
    /\ hp_arrays' = h.arrays
    /\ hp_objs' = h.objs
    /\ hp_ret' = ret
    /\ UNCHANGED <<hp_args, hp_pre>>
    /\ UNCHANGED heapFrame

HeapReorder ==
    LET r == heapReorder(Heap, hp_args.list, hp_args.si, hp_args.di)
    IN HeapSet("reorder", r.heap, <<r.ref>>)

HeapMove ==
    LET r == heapMove(Heap, hp_args.list, hp_args.dest, hp_args.si, hp_args.di)
    IN HeapSet("move", r.heap, <<r.source, r.destination>>)

HeapUpdatePositions ==
    LET r == heapUpdatePositions(Heap, hp_args.list)
    IN HeapSet("updatePositions", r.heap, <<r.ref>>)

HeapReorderItems ==
    LET r == heapReorderItems(Heap, hp_args.list, hp_args.si, hp_args.di)
    IN HeapSet("reorderItems", r.heap, <<r.ref>>)

HeapMoveItem ==
    LET r == heapMoveItem(Heap, hp_args.list, hp_args.dest, hp_args.si,
                          hp_args.di)
    IN HeapSet("moveItem", r.heap, <<r.source, r.destination>>)

HeapNext ==
    \/ HeapReorder
    \/ HeapMove
    \/ HeapUpdatePositions
    \/ HeapReorderItems
    \/ HeapMoveItem

SpecHeap == HeapInit /\ [][HeapNext]_vars

\* C34: reorder, move, updatePositions, reorderItems and moveItem leave the
\* arrays they are given as they were (same length, same elements in the
\* same order) and every record that existed before the call unchanged;
\* what they return are arrays that did not exist before.
C34_InputsUnchanged ==
    hp_op # "none"
        => /\ \A a \in 1..Len(hp_pre.arrays) : hp_arrays[a] = hp_pre.arrays[a]
           /\ \A o \in 1..Len(hp_pre.objs) : hp_objs[o] = hp_pre.objs[o]
           /\ \A k \in 1..Len(hp_ret) : hp_ret[k] > Len(hp_pre.arrays)

\* moveItem took the first of three records to index 1 of a two-record
\* destination: the results are renumbered copies that agree with moveItem
\* on the records, the input arrays still hold three and two records
C34_Witness ==
    /\ hp_op = "moveItem"
    /\ hp_args.dest = 2 /\ hp_args.si = 0 /\ hp_args.di = 1
    /\ Len(hp_arrays[1]) = 3 /\ Len(hp_arrays[2]) = 2
    /\ Len(hp_arrays[hp_ret[1]]) = 2 /\ Len(hp_arrays[hp_ret[2]]) = 3
    /\ hp_objs[hp_arrays[1][2]].position # 0
    /\ Deref(hp_arrays, hp_objs, hp_ret[1])
          = moveItem(Deref(hp_arrays, hp_objs, 1), Deref(hp_arrays, hp_objs, 2),
                     0, 1).source
    /\ Deref(hp_arrays, hp_objs, hp_ret[2])
          = moveItem(Deref(hp_arrays, hp_objs, 1), Deref(hp_arrays, hp_objs, 2),
                     0, 1).destination

(***************************************************************************)
(* Board page handlers that overlap (pages/BoardPage.js): a handler reads  *)
(* state.cards when it is called, awaits its IndexedDB operations and      *)
(* dispatches afterwards; another handler may be called while it awaits.   *)
(***************************************************************************)
PageTasks == 1..NumPageTasks

\* boards whose columns hold cards at the positions 0..n-1
PageStores ==
    {cards \in UNION {{[k \in 1..n |-> [id |-> k, columnId |-> col[k],
                                        position |-> pos[k]]] :
                          col \in [1..n -> ColIds], pos \in [1..n -> 0..(n - 1)]} :
                      n \in 1..NumPageCards} :
        \A c \in ColIds : Contiguous(cards, c)}

\* the records of the 'cards' table, in key order
PageDbCards ==
    KeyOrder({pg_db[i] : i \in DOMAIN pg_db}, NumPageCards + NumPageTasks)

PageIdleTask == [pc |-> "idle"]

PageInProgress == \E t \in PageTasks : pg_task[t].pc \notin {"idle", "done"}

\* whether an IndexedDB request succeeds (saveToIndexedDB and
\* deleteFromIndexedDB catch a failure and return false)
PageOutcomes == IF pg_faults < MaxPageFaults THEN BOOLEAN ELSE {TRUE}

\* a request made by a handler on a table of the database, not yet settled
PageRequest(t, table, o) == [task |-> t, table |-> table, op |-> o]

\* the loop of handleDeleteColumn: the delete of the next card of
\* cardsToDelete, and after the last one that of the column
PageDeleteNext(t, cardsToDelete, columnId) ==
    IF cardsToDelete # <<>>
    THEN PageRequest(t, "cards", OpDelete(Head(cardsToDelete)))
    ELSE PageRequest(t, "columns", OpDelete(columnId))

\* the pending requests without the i-th
PageQueueWithout(i) ==
    [k \in 1..(Len(pg_queue) - 1) |->
        IF k < i THEN pg_queue[k] ELSE pg_queue[k + 1]]

\* the i-th pending request settles: the requests on one table settle in
\* the order they were made, each succeeding or failing on its own
PageSettles(i, ok) ==
    LET q == pg_queue[i]
    IN /\ \A j \in 1..(i - 1) : pg_queue[j].table # q.table
       /\ pg_db' = IF q.table = "cards" THEN DbApply(pg_db, q.op, ok) ELSE pg_db
       /\ pg_dbColumns' = IF q.table = "columns" /\ ok
                          THEN pg_dbColumns \ {q.op.id} ELSE pg_dbColumns
       /\ pg_faults' = IF ok THEN pg_faults ELSE pg_faults + 1

PageInit ==
    /\ pg_columns = ColIds
    /\ pg_dbColumns = ColIds
    /\ pg_cards \in PageStores
    /\ pg_db = pg_cards
    /\ pg_task = [t \in PageTasks |-> PageIdleTask]
    /\ pg_queue = <<>>
    /\ pg_faults = 0
    /\ pg_nextId = Len(pg_cards) + 1
    /\ pg_overlap = FALSE
    /\ PageFrameIdle

\* handleDeleteColumn(columnId) is called: cardsToDelete is taken from the
\* state of the render the handler belongs to, and the handler runs up to
\* its first await, the delete of the first card or, without cards, of the
\* column
PageCallDeleteColumn ==
    \E t \in PageTasks, columnId \in pg_columns :
        LET cardsToDelete == IdsOf(ColumnFilter(pg_cards, columnId))
        IN /\ pg_task[t].pc = "idle"
           /\ pg_task' = [pg_task EXCEPT ![t] =
                 [pc |-> "delete", kind |-> "deleteColumn",
                  columnId |-> columnId, cardsToDelete |-> cardsToDelete]]
           /\ pg_queue' = Append(pg_queue,
                                 PageDeleteNext(t, cardsToDelete, columnId))
           /\ pg_overlap' = (pg_overlap \/ PageInProgress)
           /\ UNCHANGED <<pg_columns, pg_cards, pg_dbColumns, pg_db, pg_nextId,
                          pg_faults>>
           /\ UNCHANGED pageFrame

\* await cardActions.deleteCard(card.id) settles; its result is not read:
\* DELETE_CARD is dispatched and the loop goes on with the next card, or
\* the handler goes on to columnActions.deleteColumn
PageDeleteColumnCard ==
    \E i \in 1..Len(pg_queue), ok \in PageOutcomes :
        LET q == pg_queue[i]
            t == q.task
            rest == Tail(pg_task[t].cardsToDelete)
        IN /\ pg_task[t].pc = "delete"
           /\ q.table = "cards"
           /\ PageSettles(i, ok)
           /\ pg_cards' = ReduceDeleteCard(pg_cards, q.op.id)
           /\ pg_task' = [pg_task EXCEPT ![t].cardsToDelete = rest]
           /\ pg_queue' = Append(PageQueueWithout(i),
                                 PageDeleteNext(t, rest, pg_task[t].columnId))
           /\ UNCHANGED <<pg_columns, pg_nextId, pg_overlap>>
           /\ UNCHANGED pageFrame

\* await columnActions.deleteColumn(columnId) settles; its result is not
\* read: DELETE_COLUMN is dispatched
PageDeleteColumnCompletes ==
    \E i \in 1..Len(pg_queue), ok \in PageOutcomes :
        LET q == pg_queue[i]
            t == q.task
        IN /\ pg_task[t].pc = "delete"
           /\ q.table = "columns"
           /\ PageSettles(i, ok)
           /\ pg_columns' = pg_columns \ {pg_task[t].columnId}
           /\ pg_task' = [pg_task EXCEPT ![t] = [pc |-> "done", kind |-> @.kind]]
           /\ pg_queue' = PageQueueWithout(i)
           /\ UNCHANGED <<pg_cards, pg_nextId, pg_overlap>>
           /\ UNCHANGED pageFrame

\* handleAddCard(columnId, cardData) is called from a column that is
\* shown, up to `await cardActions.createCard`: the new card is put
PageCallAddCard ==
    \E t \in PageTasks, columnId \in pg_columns :
        LET columnCards == ColumnFilter(pg_cards, columnId)
            newCard == createCard(pg_nextId,
                                  [columnId |-> columnId,
                                   position |-> Len(columnCards)])
        IN /\ pg_task[t].pc = "idle"
           /\ pg_task' = [pg_task EXCEPT ![t] =
                 [pc |-> "add", kind |-> "addCard", newCard |-> newCard]]
           /\ pg_queue' = Append(pg_queue, PageRequest(t, "cards", OpPut(newCard)))
           /\ pg_nextId' = pg_nextId + 1
           /\ pg_overlap' = (pg_overlap \/ PageInProgress)
           /\ UNCHANGED <<pg_columns, pg_cards, pg_dbColumns, pg_db, pg_faults>>
           /\ UNCHANGED pageFrame

\* await cardActions.createCard(...) settles: createCard returns the card
\* whether or not it was saved, and ADD_CARD is dispatched
PageAddCardCompletes ==
    \E i \in 1..Len(pg_queue), ok \in PageOutcomes :
        LET q == pg_queue[i]
            t == q.task
        IN /\ pg_task[t].pc = "add"
           /\ PageSettles(i, ok)
           /\ pg_cards' = ReduceAddCard(pg_cards, pg_task[t].newCard)
           /\ pg_task' = [pg_task EXCEPT ![t] = [pc |-> "done", kind |-> @.kind]]
           /\ pg_queue' = PageQueueWithout(i)
           /\ UNCHANGED <<pg_columns, pg_nextId, pg_overlap>>
           /\ UNCHANGED pageFrame

\* handleDragEnd(result), type CARD, for a card and a destination that are
\* shown and a drop that is not where the card was picked up: the updates
\* are computed from the state of the render the handler belongs to, and
\* every cardActions.updateCard puts its record before the handler awaits
\* them all
PageCallDragEnd ==
    \E t \in PageTasks, src \in pg_columns, dst \in pg_columns :
      \E si \in 0..(Len(ColumnCards(pg_cards, src)) - 1),
         di \in 0..Len(ColumnCards(pg_cards, dst)) :
        LET updates ==
              IF src = dst
              THEN DragSameUpdates(pg_cards, src, si, di)
              ELSE DragCrossUpdates(pg_cards, src, dst, di,
                                    ColumnCards(pg_cards, src)[si + 1].id)
        IN /\ pg_task[t].pc = "idle"
           /\ src = dst => (si # di /\ di < Len(ColumnCards(pg_cards, src)))
           /\ pg_task' = [pg_task EXCEPT ![t] =
                 [pc |-> "drag", kind |-> "dragEnd", updates |-> updates,
                  pending |-> Len(updates)]]
           /\ pg_queue' = pg_queue \o
                 [k \in 1..Len(updates) |->
                     PageRequest(t, "cards", OpPut(updates[k]))]
           /\ pg_overlap' = (pg_overlap \/ PageInProgress)
           /\ UNCHANGED <<pg_columns, pg_cards, pg_dbColumns, pg_db, pg_nextId,
                          pg_faults>>
           /\ UNCHANGED pageFrame

\* one put of a drop settles while others of the same drop are pending
PageDragEndPutSettles ==
    \E i \in 1..Len(pg_queue), ok \in PageOutcomes :
        LET q == pg_queue[i]
            t == q.task
        IN /\ pg_task[t].pc = "drag"
           /\ pg_task[t].pending > 1
           /\ PageSettles(i, ok)
           /\ pg_task' = [pg_task EXCEPT ![t].pending = @ - 1]
           /\ pg_queue' = PageQueueWithout(i)
           /\ UNCHANGED <<pg_columns, pg_cards, pg_nextId, pg_overlap>>
           /\ UNCHANGED pageFrame

\* the last put of a drop settles: await Promise.all(updates) resolves with
\* the records updateCard returned, saved or not, and each is dispatched
PageDragEndCompletes ==
    \E i \in 1..Len(pg_queue), ok \in PageOutcomes :
        LET q == pg_queue[i]
            t == q.task
        IN /\ pg_task[t].pc = "drag"
           /\ pg_task[t].pending = 1
           /\ PageSettles(i, ok)
           /\ pg_cards' = DispatchUpdates(pg_cards, pg_task[t].updates)
           /\ pg_task' = [pg_task EXCEPT ![t] = [pc |-> "done", kind |-> @.kind]]
           /\ pg_queue' = PageQueueWithout(i)
           /\ UNCHANGED <<pg_columns, pg_nextId, pg_overlap>>
           /\ UNCHANGED pageFrame

PageNext ==
    \/ PageCallDeleteColumn
    \/ PageDeleteColumnCard
    \/ PageDeleteColumnCompletes
    \/ PageCallAddCard
    \/ PageAddCardCompletes
    \/ PageCallDragEnd
    \/ PageDragEndPutSettles
    \/ PageDragEndCompletes

SpecPage == PageInit /\ [][PageNext]_vars

\* C35: whatever handlers were called and however they overlapped, once
\* all of them have completed every card in state and every record of the
\* 'cards' table has the columnId of an existing column.
C35_CardsReferenceColumns ==
    (~PageInProgress /\ pg_faults = 0)
        => /\ \A k \in 1..Len(pg_cards) : pg_cards[k].columnId \in pg_columns
           /\ \A i \in DOMAIN pg_db : pg_db[i].columnId \in pg_dbColumns

\* C36: two card drag-end handlers, the second called while the first was
\* awaiting its saves, have both completed: in state and in the 'cards'
\* table the positions of every column's cards are exactly 0..n-1.
C36_OverlappingDropsContiguous ==
    (/\ pg_overlap
     /\ pg_faults = 0
     /\ \A t \in PageTasks : pg_task[t].pc = "done" /\ pg_task[t].kind = "dragEnd")
        => \A c \in ColIds : Contiguous(pg_cards, c) /\ Contiguous(PageDbCards, c)

(***************************************************************************)
(* One record followed from the store to the table: an update schedules    *)
(* the debounced save (stores/cardStore.js), the timer callback awaits     *)
(* storageService.save, which awaits ensureInitialized() and then          *)
(* adapter.save (StorageService.js, adapters/IndexedDBAdapter.js).  A      *)
(* continuation that follows an await of an already settled promise runs   *)
(* before any timer; one that follows adapter.init() or a put runs when    *)
(* IndexedDB settles it.                                                   *)
(***************************************************************************)

WriteOutcomes == IF wr_faults < MaxWriteFaults THEN BOOLEAN ELSE {TRUE}

\* a timer callback whose save has not settled
WriteInFlight == \E k \in 1..Len(wr_task) : wr_task[k].pc # "done"

\* adapter.save(storeName, data): the put is made on this.db
WritePut(data, overlapped) ==
    [data |-> data, pc |-> "put_wait", db |-> Len(wr_dbs), ok |-> FALSE,
     overlapped |-> overlapped]

WriteInit ==
    /\ wr_version = 0
    /\ wr_timer = 0
    /\ wr_initialized \in BOOLEAN
    /\ wr_dbs = IF wr_initialized THEN <<"open">> ELSE <<>>
    /\ wr_task = <<>>
    /\ wr_opens = <<>>
    /\ wr_queue = <<>>
    /\ wr_db = 0
    /\ wr_applied = <<>>
    /\ wr_faults = 0
    /\ WriteFrameIdle

\* the store changes the record and calls debouncedPersist(updated):
\* clearTimeout of the pending timer, setTimeout with the new record
WriteUpdate ==
    /\ wr_version < MaxWrites
    /\ wr_version' = wr_version + 1
    /\ wr_timer' = wr_version + 1
    /\ UNCHANGED <<wr_initialized, wr_dbs, wr_task, wr_opens, wr_queue, wr_db,
                   wr_applied, wr_faults>>
    /\ UNCHANGED writeFrame

\* the timer fires: storageService.save('cards', data) runs to its first
\* pending await.  Initialized: ensureInitialized() returns and the put is
\* made.  Not initialized: init() makes a new Dexie instance, opens it and
\* the callback waits for the open.
WriteTimerFires ==
    /\ wr_timer # 0
    /\ wr_timer' = 0
    /\ LET k == Len(wr_task) + 1
       IN IF ensureInitialized(wr_initialized) = "svc_wait"
          THEN /\ wr_task' = Append(wr_task, WritePut(wr_timer, WriteInFlight))
               /\ wr_queue' = Append(wr_queue, k)
               /\ UNCHANGED <<wr_dbs, wr_opens>>
          ELSE /\ wr_dbs' = Append(wr_dbs, "opening")
               /\ wr_task' = Append(wr_task,
                     [data |-> wr_timer, pc |-> "init_wait",
                      db |-> Len(wr_dbs) + 1, ok |-> FALSE,
                      overlapped |-> WriteInFlight])
               /\ wr_opens' = Append(wr_opens, k)
               /\ UNCHANGED wr_queue
    /\ UNCHANGED <<wr_version, wr_initialized, wr_db, wr_applied, wr_faults>>
    /\ UNCHANGED writeFrame

\* the oldest open settles: this.initialized = its result, ensureInitialized
\* and save resume and the put is made on this.db, the newest instance
WriteInitSettles ==
    \E ok \in WriteOutcomes :
        /\ wr_opens # <<>>
        /\ LET k == Head(wr_opens)
           IN /\ wr_dbs' = [wr_dbs EXCEPT ![wr_task[k].db] =
                               IF ok THEN "open" ELSE "failed"]
              /\ wr_task' = [wr_task EXCEPT ![k] =
                               WritePut(@.data, @.overlapped)]
              /\ wr_queue' = Append(wr_queue, k)
        /\ wr_opens' = Tail(wr_opens)
        /\ wr_initialized' = ok
        /\ wr_faults' = IF ok THEN wr_faults ELSE wr_faults + 1
        /\ UNCHANGED <<wr_version, wr_timer, wr_db, wr_applied>>
        /\ UNCHANGED writeFrame

\* the oldest put settles (IndexedDB runs the read-write requests made
\* against one object store in the order they were made), once the instance
\* it was made on has finished opening; it fails on an instance that did
\* not open.  adapter.save returns the outcome, which the timer callback
\* does not read.
WritePutSettles ==
    \E ok \in WriteOutcomes :
        /\ wr_queue # <<>>
        /\ LET k == Head(wr_queue)
               done == ok /\ wr_dbs[wr_task[k].db] = "open"
           IN /\ wr_dbs[wr_task[k].db] # "opening"
              /\ wr_db' = IF done THEN wr_task[k].data ELSE wr_db
              /\ wr_applied' = IF done THEN Append(wr_applied, wr_task[k].data)
                               ELSE wr_applied
              /\ wr_task' = [wr_task EXCEPT ![k].pc = "done", ![k].ok = done]
              /\ wr_queue' = Tail(wr_queue)
        /\ wr_faults' = IF ok THEN wr_faults ELSE wr_faults + 1
        /\ UNCHANGED <<wr_version, wr_timer, wr_initialized, wr_dbs, wr_opens>>
        /\ UNCHANGED writeFrame

WriteNext ==
    \/ WriteUpdate
    \/ WriteTimerFires
    \/ WriteInitSettles
    \/ WritePutSettles

SpecWrites == WriteInit /\ [][WriteNext]_vars

\* C32: of two saves of the record issued in order, the earlier never takes
\* effect in the table after the later (the puts take effect in the order
\* of the states they carry), and once every save issued has settled and
\* the last one succeeded the durable record is the last one's content.
C32_EarlierWriteNeverLands ==
    /\ \A i, j \in 1..Len(wr_applied) : i < j => wr_applied[i] < wr_applied[j]
    /\ (/\ Len(wr_task) >= 2 /\ ~WriteInFlight /\ wr_task[Len(wr_task)].ok)
           => wr_db = wr_task[Len(wr_task)].data

====
